---- MODULE Spec2Model ----
(***************************************************************************)
(* Model of the signal analytics core of QuantFinance: level consolidation *)
(* (analysis/levels.py), Fibonacci swings (analysis/fibonacci.py),         *)
(* divergences (analysis/divergence.py), trend and breakouts               *)
(* (analysis/trend.py) and the setup engine (setups/engine.py).            *)
(*                                                                         *)
(* Prices are integers; a consolidated level value is an exact rational    *)
(* <<numerator, denominator>>; weights and tolerances are kept in tenths   *)
(* (weight 3.5 is 35, tolerance 0.5% is 5).                                *)
(***************************************************************************)
EXTENDS Integers, Sequences, FiniteSets, TLC

VARIABLES
    pc,             \* "call" before the operation under study has run, "return" after
    candidates,     \* the List[LevelDetail] that _add_candidate updates
    contributions,  \* history: for each detail, the (value, weight) pairs merged into it
    level_df,       \* the frame handed to consolidate_levels
    price_levels,   \* the PriceLevels it returns
    fib_df,         \* the frame handed to compute_retracements
    lookback,       \* its lookback argument
    fibonacci,      \* the FibonacciLevels it returns
    prices,         \* the price series handed to a divergence detector
    indicator,      \* the indicator series handed to it
    div_order,      \* its order argument
    min_distance,   \* its min_distance argument
    divergences,    \* what the detector returned (or that it raised)
    pivot_pairs,    \* history: the pivot pair behind each returned signal
    earlier,        \* history: the pivot pairs found before the series was reversed
    breakout_price, \* the price series handed to breakout_signals
    support_levels,     \* its support_levels argument
    resistance_levels,  \* its resistance_levels argument
    breakout_tolerance, \* its tolerance_pct argument, in tenths of a percent
    breakout,       \* what it returned (or that it raised)
    trend_close,    \* the close series handed to trend_strength
    trend_windows,  \* its short_window, medium_window and long_window arguments
    trend,          \* the TrendSnapshot it returned (or that it raised)
    setup_snapshot, \* the MarketSnapshot handed to evaluate_setups
    setup_df,       \* the indicator table handed to it
    setups,         \* what it returned (or that it raised)
    parquet,        \* output_dir of persist_raw_history: the rows of each ticker's file
    persisted,      \* history: per ticker and date, the last close persisted and in how many calls
    persist_calls,  \* history: the persist_raw_history calls made so far
    persist_raised, \* whether the last persist_raw_history call raised
    config,         \* the file at config_path handed to load_tickers_from_config
    loaded,         \* what load_tickers_from_config returned (or that it raised)
    audit_args,     \* expected, data_dir, max_gap_days of _audit_directory, and today
    summary,        \* the AuditSummary it returned
    df_arg,         \* history: the table as the caller passed it to the entry point
    caller_df,      \* the caller's table object
    macro_arg,      \* the macro_context argument of snapshot_from_dataframe
    built,          \* history: what build_market_snapshot returned (or that it raised)
    market_snapshot,    \* the entry point called and what it returned (or that it raised)
    consumed,       \* the outputs of the consumers the snapshot was handed to
    merged_close,   \* data["Close"] at the divergence step of build_market_snapshot
    merged_indicators,  \* the RSI_14, OBV and Histogram columns at that step
    merged_divergences, \* the divergences list the step leaves (or that it raised)
    portfolio,      \* config and existing_dir of download_portfolio_data, and the provider
    futures,        \* the state of the future of each asset's _task
    data_map,       \* data_map of download_portfolio_data
    skipped         \* its skipped list

mergeVars == <<candidates, contributions>>
levelVars == <<level_df, price_levels>>
fibVars == <<fib_df, lookback, fibonacci>>
divVars == <<prices, indicator, div_order, min_distance, divergences, pivot_pairs, earlier>>
breakoutVars == <<breakout_price, support_levels, resistance_levels, breakout_tolerance,
                  breakout>>
\* The variables of the components modelled after the first three.
trendVars == <<trend_close, trend_windows, trend>>
setupVars == <<setup_snapshot, setup_df, setups>>
persistVars == <<parquet, persisted, persist_calls, persist_raised>>
\* The variables of the workflows package.
configVars == <<config, loaded>>
auditVars == <<audit_args, summary>>
snapshotVars == <<df_arg, caller_df, macro_arg, built, market_snapshot, consumed>>
mergedVars == <<merged_close, merged_indicators, merged_divergences>>
portfolioVars == <<portfolio, futures, data_map, skipped>>
laterVars == <<mergedVars, portfolioVars>>
workflowVars == <<persistVars, configVars, auditVars, snapshotVars, laterVars>>
otherVars == <<divVars, breakoutVars, trendVars, setupVars, workflowVars>>
vars == <<pc, candidates, contributions, level_df, price_levels, fib_df, lookback,
          fibonacci, prices, indicator, div_order, min_distance, divergences, pivot_pairs,
          earlier, breakout_price, support_levels, resistance_levels, breakout_tolerance,
          breakout, trend_close, trend_windows, trend, setup_snapshot, setup_df, setups,
          parquet, persisted, persist_calls, persist_raised, config, loaded,
          audit_args, summary, df_arg, caller_df, macro_arg, built, market_snapshot,
          consumed, merged_close, merged_indicators, merged_divergences, portfolio,
          futures, data_map, skipped>>

\* Value of a variable that the specification at hand does not use.
Idle == "idle"
\* Python's None.
None == "None"

(***************************************************************************)
(* Arithmetic helpers                                                      *)
(***************************************************************************)
Abs(x) == IF x < 0 THEN -x ELSE x
Max(a, b) == IF a >= b THEN a ELSE b
Min(a, b) == IF a <= b THEN a ELSE b

RECURSIVE GCD(_, _)
GCD(a, b) == IF b = 0 THEN a ELSE GCD(b, a % b)

\* A rational in lowest terms with a positive denominator.
Rat(n, d) == LET g == GCD(Abs(n), d) IN <<n \div g, d \div g>>
RatLess(a, b) == a[1] * b[2] < b[1] * a[2]
RatLeq(a, b) == a[1] * b[2] <= b[1] * a[2]
RatEq(a, b) == a[1] * b[2] = b[1] * a[2]

\* The sum of s[lo..hi], taken by halves so that a series of hundreds of
\* bars is summed at a shallow depth.
RECURSIVE SumRange(_, _, _)
SumRange(s, lo, hi) ==
    IF lo > hi THEN 0
    ELSE IF lo = hi THEN s[lo]
         ELSE LET mid == (lo + hi) \div 2
              IN SumRange(s, lo, mid) + SumRange(s, mid + 1, hi)

SeqSum(s) == SumRange(s, 1, Len(s))

SetMin(S) == CHOOSE x \in S : \A y \in S : x <= y
SetMax(S) == CHOOSE x \in S : \A y \in S : x >= y

SeqMin(s) == SetMin({s[i] : i \in 1..Len(s)})
SeqMax(s) == SetMax({s[i] : i \in 1..Len(s)})

RECURSIVE Concat(_)
Concat(ss) == IF ss = <<>> THEN <<>> ELSE Head(ss) \o Concat(Tail(ss))

Contains(s, x) == \E i \in 1..Len(s) : s[i] = x

(***************************************************************************)
(* Bounds of the explored inputs                                           *)
(***************************************************************************)
\* Bars of the base pattern of an input series.
MaxBars == 4
\* Repetitions of the base pattern in a long series.
MaxReps == 6
\* Candidate additions explored in the merge pass alone.
MaxAdds == 4
\* Close prices are a base plus an offset: around 10 the round numbers reach
\* below zero, around 100 neighbouring prices are within 1% of each other.
PriceBases == {10, 100}
PriceOffsets == {0, 1, 2}
\* Calendar days between consecutive bars of a series.
Gaps == {1, 3, 7}
\* Bars of the base pattern of a series handed to compute_retracements, and
\* the repetitions of that pattern in a long series.
MaxFibBars == 6
MaxFibReps == 3
\* Bars of a series handed to a divergence detector, and the missing values
\* at the head of its indicator.
MaxDivBars == 4
MaxMissing == 1
\* Bars of a series handed to breakout_signals, and levels in each of its
\* two tuples.
MaxPriceBars == 2
MaxLevels == 2
\* Bars of a series handed to trend_strength.
MaxTrendBars == 6
\* High = Close + spread, Low = Close - spread (0: the frame has no High/Low).
Spreads == {0, 1}

(***************************************************************************)
(* scipy.signal.argrelextrema(values, comparator, order=order), mode clip  *)
(***************************************************************************)
Compare(comparator, a, b) ==
    CASE comparator = "less_equal" -> a <= b
      [] comparator = "greater_equal" -> a >= b

IsRelExtremum(values, i, comparator, order) ==
    \A shift \in 1..order :
        /\ Compare(comparator, values[i], values[Min(i + shift, Len(values))])
        /\ Compare(comparator, values[i], values[Max(i - shift, 1)])

\* Positions (1-based, ascending) of the relative extrema.
argrelextrema(values, comparator, order) ==
    LET idx == [i \in 1..Len(values) |-> i]
        Keep(i) == IsRelExtremum(values, i, comparator, order)
    IN SelectSeq(idx, Keep)

(***************************************************************************)
(* analysis/levels.py                                                      *)
(***************************************************************************)
\* LevelDetail.merge
MergeWrongMean(detail, other_value, increment, tag) ==
    LET total_weight == detail.weight + increment
        n == detail.value[1]
        d == detail.value[2]
    IN [value |-> IF total_weight = 0
                     THEN Rat(other_value, 1)
                     ELSE Rat(n + other_value * increment * d, d * total_weight),
        weight |-> total_weight,
        count |-> detail.count + 1,
        tags |-> IF Contains(detail.tags, tag) THEN detail.tags
                 ELSE Append(detail.tags, tag)]

Merge(detail, other_value, increment, tag) ==
    LET total_weight == detail.weight + increment
        n == detail.value[1]
        d == detail.value[2]
    IN [value |-> IF total_weight = 0
                     THEN Rat(other_value, 1)
                     ELSE Rat(n * detail.weight + other_value * increment * d,
                              d * total_weight),
        weight |-> total_weight,
        count |-> detail.count + 1,
        tags |-> IF Contains(detail.tags, tag) THEN detail.tags
                 ELSE Append(detail.tags, tag)]

\* add_tag that leaves the weight as it was.
add_tag_without_increment(detail, tag, increment) ==
    [detail EXCEPT !.tags = IF Contains(detail.tags, tag) THEN @ ELSE Append(@, tag)]

\* LevelDetail.add_tag
add_tag(detail, tag, increment) ==
    [detail EXCEPT !.tags = IF Contains(detail.tags, tag) THEN @ ELSE Append(@, tag),
                   !.weight = @ + increment]

\* reference = detail.value or value; the test is
\* abs(detail.value - value) / abs(reference) * 100 <= tolerance_pct,
\* with tolerance_pct in tenths of a percent and detail.value = n / d.
WithinTolerance(detail_value, value, tolerance_pct) ==
    LET n == detail_value[1]
        d == detail_value[2]
    IN IF n # 0
          THEN Abs(n - value * d) * 1000 <= tolerance_pct * Abs(n)
          ELSE /\ value # 0
               /\ Abs(value) * 1000 <= tolerance_pct * Abs(value)

\* Position of the first detail the candidate merges into, 0 when there is none.
FirstFit(cands, value, tolerance_pct) ==
    LET hits == {i \in 1..Len(cands) :
                    WithinTolerance(cands[i].value, value, tolerance_pct)}
    IN IF hits = {} THEN 0 ELSE CHOOSE i \in hits : \A j \in hits : i <= j

\* _add_candidate: the candidate list after the call. Candidate values are
\* numbers here, so of the guards (None, non-finite, <= 0) only the last one
\* can apply.
add_candidate(cands, value, weight, tag, tolerance_pct) ==
    IF value <= 0 THEN cands
    ELSE LET i == FirstFit(cands, value, tolerance_pct)
         IN IF i # 0
               THEN [cands EXCEPT ![i] = Merge(@, value, weight, tag)]
               ELSE Append(cands, [value |-> Rat(value, 1), weight |-> weight,
                                   count |-> 1, tags |-> <<tag>>])

\* sorted(candidates, key=lambda d: d.value): a stable sort.
RECURSIVE InsertByValue(_, _)
InsertByValue(sorted, detail) ==
    IF sorted = <<>> THEN <<detail>>
    ELSE IF RatLess(detail.value, Head(sorted).value)
         THEN <<detail>> \o sorted
         ELSE <<Head(sorted)>> \o InsertByValue(Tail(sorted), detail)

RECURSIVE SortByValue(_, _)
SortByValue(done, rest) ==
    IF rest = <<>> THEN done
    ELSE SortByValue(InsertByValue(done, Head(rest)), Tail(rest))

finalize_unsorted(cands) == cands

\* _finalize_candidates
finalize_candidates(cands) == SortByValue(<<>>, cands)

\* _detect_supports / _detect_resistances: the values at the extrema, or
\* nothing when the series is shorter than 2 * order + 1.
detect_extrema(series, order, comparator) ==
    IF Len(series) < order * 2 + 1 THEN <<>>
    ELSE LET indices == argrelextrema(series, comparator, order)
         IN [k \in 1..Len(indices) |-> series[indices[k]]]

detect_supports(series, order) == detect_extrema(series, order, "less_equal")
detect_resistances(series, order) == detect_extrema(series, order, "greater_equal")

\* detect_round_numbers(series, step, width)
detect_round_numbers(series, step, width) ==
    LET start == ((SeqSum(series) \div (Len(series) * step)) - width) * step
    IN [i \in 1..(2 * width + 1) |-> start + (i - 1) * step]

\* A frame is a sequence of rows [Date, Close] or [Date, Close, High, Low];
\* Date is a day number, day 0 being a Monday.
Column(df, name) == [i \in 1..Len(df) |-> df[i][name]]
HasColumn(df, name) == name \in DOMAIN df[1]
\* df.get(name, default)
GetColumn(df, name, default) == IF HasColumn(df, name) THEN Column(df, name) ELSE default

\* df.sort_index(): rows in ascending date order (stable: a row moves ahead
\* of the rows with a later date only).
sort_index(df) == SortSeq(df, LAMBDA a, b : a.Date < b.Date)

\* The calendar week (Monday to Sunday) of a day: the bin of resample("W").
DaysPerWeek == 7
WeekOf(day) == day \div DaysPerWeek

RECURSIVE SortedWeeks(_)
SortedWeeks(W) ==
    IF W = {} THEN <<>>
    ELSE LET w == SetMin(W) IN <<w>> \o SortedWeeks(W \ {w})

\* series.resample("W").min() / .max() with the empty weeks dropped.
resample_weekly(dates, series, how) ==
    LET weeks == SortedWeeks({WeekOf(dates[i]) : i \in 1..Len(dates)})
        InWeek(w) == {series[i] : i \in {j \in 1..Len(dates) : WeekOf(dates[j]) = w}}
    IN [k \in 1..Len(weeks) |->
           IF how = "min" THEN SetMin(InWeek(weeks[k])) ELSE SetMax(InWeek(weeks[k]))]

\* weekly.rolling(window=52, min_periods=1).<how>().iloc[-1]
RollingWindow == 52
rolling_last(dates, series, how) ==
    LET last_week == WeekOf(dates[Len(dates)])
        inside == {series[i] : i \in {j \in 1..Len(dates) :
                                   WeekOf(dates[j]) > last_week - RollingWindow}}
    IN IF how = "min" THEN SetMin(inside) ELSE SetMax(inside)

\* compute_special_levels(df)
compute_special_levels(df) ==
    LET close_series == Column(df, "Close")
        high_series == GetColumn(df, "High", close_series)
        low_series == GetColumn(df, "Low", close_series)
        dates == Column(df, "Date")
    IN [historical_min |-> SeqMin(low_series),
        historical_max |-> SeqMax(high_series),
        rolling_min |-> rolling_last(dates, low_series, "min"),
        rolling_max |-> rolling_last(dates, high_series, "max")]

\* Default arguments of consolidate_levels.
round_step == 5
round_width == 5
\* grouping_tolerance_pct = 0.5, in tenths of a percent.
grouping_tolerance_pct == 5

\* swing_configs: (swing_order, weight, tag)
swing_configs ==
    << [order |-> 2, weight |-> 10, tag |-> "swing_curto"],
       [order |-> 5, weight |-> 15, tag |-> "swing_medio"],
       [order |-> 10, weight |-> 20, tag |-> "swing_longo"] >>

\* tol = grouping_tolerance_pct * max(1.0, swing_order / 5)
SwingTolerance(order) == (grouping_tolerance_pct * Max(5, order)) \div 5

\* A candidate passed to _add_candidate.
Candidate(value, weight, tag, tol) ==
    [value |-> value, weight |-> weight, tag |-> tag, tol |-> tol]

Candidates(values, weight, tag, tol) ==
    [k \in 1..Len(values) |-> Candidate(values[k], weight, tag, tol)]

\* The calls consolidate_levels makes on support_details, in order.
SupportCandidates(low_series, low_weekly, round_numbers, special) ==
    Concat([c \in 1..Len(swing_configs) |->
              Candidates(detect_supports(low_series, swing_configs[c].order),
                         swing_configs[c].weight, swing_configs[c].tag,
                         SwingTolerance(swing_configs[c].order))])
    \o Candidates(detect_supports(low_weekly, 2), 35, "swing_semanal",
                  grouping_tolerance_pct * 2)
    \o Candidates(round_numbers, 3, "numero_redondo", grouping_tolerance_pct * 2)
    \o <<Candidate(special.rolling_min, 30, "minimo_52s", grouping_tolerance_pct)>>
    \o <<Candidate(special.historical_min, 40, "minimo_historico",
                   grouping_tolerance_pct)>>

\* The resistance calls without the round numbers.
ResistanceCandidatesNoRound(high_series, high_weekly, round_numbers, special) ==
    Concat([c \in 1..Len(swing_configs) |->
              Candidates(detect_resistances(high_series, swing_configs[c].order),
                         swing_configs[c].weight, swing_configs[c].tag,
                         SwingTolerance(swing_configs[c].order))])
    \o Candidates(detect_resistances(high_weekly, 2), 35, "swing_semanal",
                  grouping_tolerance_pct * 2)
    \o <<Candidate(special.rolling_max, 30, "maximo_52s", grouping_tolerance_pct)>>
    \o <<Candidate(special.historical_max, 40, "maximo_historico",
                   grouping_tolerance_pct)>>

\* The calls consolidate_levels makes on resistance_details, in order.
ResistanceCandidates(high_series, high_weekly, round_numbers, special) ==
    Concat([c \in 1..Len(swing_configs) |->
              Candidates(detect_resistances(high_series, swing_configs[c].order),
                         swing_configs[c].weight, swing_configs[c].tag,
                         SwingTolerance(swing_configs[c].order))])
    \o Candidates(detect_resistances(high_weekly, 2), 35, "swing_semanal",
                  grouping_tolerance_pct * 2)
    \o Candidates(round_numbers, 3, "numero_redondo", grouping_tolerance_pct * 2)
    \o <<Candidate(special.rolling_max, 30, "maximo_52s", grouping_tolerance_pct)>>
    \o <<Candidate(special.historical_max, 40, "maximo_historico",
                   grouping_tolerance_pct)>>

\* The candidate list after the calls todo[lo], ..., todo[hi] in order. The
\* range is taken by halves, the left half first, so that the hundreds of
\* calls of a long series are folded at a shallow depth.
RECURSIVE AddRange(_, _, _, _)
AddRange(cands, todo, lo, hi) ==
    IF lo > hi THEN cands
    ELSE IF lo = hi
         THEN add_candidate(cands, todo[lo].value, todo[lo].weight,
                            todo[lo].tag, todo[lo].tol)
         ELSE LET mid == (lo + hi) \div 2
                  left == AddRange(cands, todo, lo, mid)
              IN IF Len(left) > 0 THEN AddRange(left, todo, mid + 1, hi)
                 ELSE AddRange(<<>>, todo, mid + 1, hi)

AddAll(cands, todo) == AddRange(cands, todo, 1, Len(todo))

\* A weekly-swing resistance at or below the latest close.
IsBrokenTopAtOrBelow(detail, latest_price) ==
    /\ Contains(detail.tags, "swing_semanal")
    /\ RatLeq(detail.value, Rat(latest_price, 1))

\* The migration loop: a weekly-swing resistance below the latest close is a
\* broken top.
IsBrokenTop(detail, latest_price) ==
    /\ Contains(detail.tags, "swing_semanal")
    /\ RatLess(detail.value, Rat(latest_price, 1))

MigratedSupports(resistance_details, latest_price) ==
    LET moved == SelectSeq(resistance_details,
                           LAMBDA d : IsBrokenTop(d, latest_price))
    IN [k \in 1..Len(moved) |-> add_tag(moved[k], "topo_rompido", 20)]

RemainingResistances(resistance_details, latest_price) ==
    SelectSeq(resistance_details, LAMBDA d : ~IsBrokenTop(d, latest_price))

\* consolidate_levels(df) with the default arguments.
consolidate_levels(frame) ==
    LET df == sort_index(frame)
        close_series == Column(df, "Close")
        high_series == GetColumn(df, "High", close_series)
        low_series == GetColumn(df, "Low", close_series)
        dates == Column(df, "Date")
        round_numbers == detect_round_numbers(close_series, round_step, round_width)
        special == compute_special_levels(df)
        low_weekly == resample_weekly(dates, low_series, "min")
        high_weekly == resample_weekly(dates, high_series, "max")
        merged_supports ==
            AddAll(<<>>, SupportCandidates(low_series, low_weekly, round_numbers, special))
        merged_resistances ==
            AddAll(<<>>, ResistanceCandidates(high_series, high_weekly, round_numbers,
                                             special))
        latest_price == close_series[Len(close_series)]
        support_details ==
            finalize_candidates(merged_supports
                                \o MigratedSupports(merged_resistances, latest_price))
        resistance_details ==
            finalize_candidates(RemainingResistances(merged_resistances, latest_price))
    IN [supports |-> [k \in 1..Len(support_details) |-> support_details[k].value],
        resistances |-> [k \in 1..Len(resistance_details) |-> resistance_details[k].value],
        round_numbers |-> round_numbers,
        historical_min |-> special.historical_min,
        historical_max |-> special.historical_max,
        rolling_min_52w |-> special.rolling_min,
        rolling_max_52w |-> special.rolling_max,
        support_details |-> support_details,
        resistance_details |-> resistance_details,
        latest_price |-> latest_price]

(***************************************************************************)
(* The merge pass on its own: any sequence of _add_candidate calls         *)
(***************************************************************************)
\* Candidate values: within 0.5% (200, 201), within 1% only (200, 202),
\* and a non-positive one that is discarded.
MergeValues == {0, 200, 201, 202}
\* (weight, tag, tolerance) of three of the sources of consolidate_levels.
MergeSources ==
    { Candidate(0, 10, "swing_curto", SwingTolerance(2)),
      Candidate(0, 35, "swing_semanal", grouping_tolerance_pct * 2),
      Candidate(0, 3, "numero_redondo", grouping_tolerance_pct * 2) }

MergeIdle == candidates = Idle /\ contributions = Idle
LevelsIdle == level_df = Idle /\ price_levels = Idle
FibIdle == fib_df = Idle /\ lookback = Idle /\ fibonacci = Idle
DivIdle ==
    /\ prices = Idle
    /\ indicator = Idle
    /\ div_order = Idle
    /\ min_distance = Idle
    /\ divergences = Idle
    /\ pivot_pairs = Idle
    /\ earlier = Idle
BreakoutIdle ==
    /\ breakout_price = Idle
    /\ support_levels = Idle
    /\ resistance_levels = Idle
    /\ breakout_tolerance = Idle
    /\ breakout = Idle
TrendIdle == trend_close = Idle /\ trend_windows = Idle /\ trend = Idle
SetupsIdle == setup_snapshot = Idle /\ setup_df = Idle /\ setups = Idle
PersistIdle ==
    /\ parquet = Idle
    /\ persisted = Idle
    /\ persist_calls = Idle
    /\ persist_raised = Idle
ConfigIdle == config = Idle /\ loaded = Idle
AuditIdle == audit_args = Idle /\ summary = Idle
SnapshotIdle ==
    /\ df_arg = Idle /\ caller_df = Idle /\ macro_arg = Idle
    /\ built = Idle /\ market_snapshot = Idle /\ consumed = Idle
MergedIdle ==
    merged_close = Idle /\ merged_indicators = Idle /\ merged_divergences = Idle
PortfolioIdle ==
    portfolio = Idle /\ futures = Idle /\ data_map = Idle /\ skipped = Idle
LaterIdle == MergedIdle /\ PortfolioIdle
WorkflowIdle == PersistIdle /\ ConfigIdle /\ AuditIdle /\ SnapshotIdle /\ LaterIdle
OthersIdle == DivIdle /\ BreakoutIdle /\ TrendIdle /\ SetupsIdle /\ WorkflowIdle

InitMerge ==
    /\ pc = "call"
    /\ candidates = <<>>
    /\ contributions = <<>>
    /\ LevelsIdle /\ FibIdle /\ OthersIdle

AddCandidate ==
    /\ Len(Concat(contributions)) < MaxAdds
    /\ \E value \in MergeValues, src \in MergeSources :
          LET i == FirstFit(candidates, value, src.tol)
          IN /\ candidates' = add_candidate(candidates, value, src.weight, src.tag, src.tol)
             /\ contributions' =
                   IF value <= 0 THEN contributions
                   ELSE IF i # 0
                        THEN [contributions EXCEPT ![i] = Append(@, <<value, src.weight>>)]
                        ELSE Append(contributions, << <<value, src.weight>> >>)
    /\ UNCHANGED <<pc, levelVars, fibVars, otherVars>>

NextMerge == AddCandidate

SpecMerge == InitMerge /\ [][NextMerge]_vars

(***************************************************************************)
(* consolidate_levels on a family of frames                                *)
(***************************************************************************)
\* n bars of pattern offs over base, repeated reps times, gap days apart.
Frame(n, base, offs, gap, spread, reps) ==
    [k \in 1..(n * reps) |->
        LET close == base + offs[((k - 1) % n) + 1]
        IN IF spread = 0
              THEN [Date |-> (k - 1) * gap, Close |-> close]
              ELSE [Date |-> (k - 1) * gap, Close |-> close,
                    High |-> close + spread, Low |-> close - spread]]

InitLevels ==
    /\ pc = "call"
    /\ \E n \in 1..MaxBars :
          \E offs \in [1..n -> PriceOffsets], base \in PriceBases, gap \in Gaps,
             spread \in Spreads, reps \in {1, MaxReps} :
              level_df = Frame(n, base, offs, gap, spread, reps)
    /\ price_levels = None
    /\ MergeIdle /\ FibIdle /\ OthersIdle

ConsolidateLevels ==
    /\ pc = "call"
    /\ price_levels' = consolidate_levels(level_df)
    /\ pc' = "return"
    /\ UNCHANGED <<level_df, mergeVars, fibVars, otherVars>>

NextLevels == ConsolidateLevels

SpecLevels == InitLevels /\ [][NextLevels]_vars

\* Relative distance of two level values, measured against the larger one, is
\* at most tolerance_pct tenths of a percent.
LevelsWithin(a, b, tolerance_pct) ==
    LET x == a[1] * b[2]
        y == b[1] * a[2]
    IN Abs(x - y) * 1000 <= tolerance_pct * Max(x, y)

NoTwoWithin(values, tolerance_pct) ==
    \A i, j \in 1..Len(values) :
        i < j => ~LevelsWithin(values[i], values[j], tolerance_pct)

\* C1: after consolidate_levels returns, no two returned supports and no two
\* returned resistances lie within the merge tolerance (0.5%) of each other.
C1_NoLevelsWithinTolerance ==
    pc = "return" =>
        /\ NoTwoWithin(price_levels.supports, grouping_tolerance_pct)
        /\ NoTwoWithin(price_levels.resistances, grouping_tolerance_pct)

IsSortedByValue(details) ==
    \A i, j \in 1..Len(details) : i < j => RatLeq(details[i].value, details[j].value)

ValuesOfDetails(values, details) ==
    /\ Len(values) = Len(details)
    /\ \A i \in 1..Len(details) : values[i] = details[i].value

AllPositive(details) == \A i \in 1..Len(details) : details[i].value[1] > 0

\* C2: the returned supports and resistances (values and details) are sorted
\* ascending by value, the value lists mirror the detail lists position by
\* position, and no returned detail has a value <= 0.
C2_LevelsSortedAlignedPositive ==
    pc = "return" =>
        /\ IsSortedByValue(price_levels.support_details)
        /\ IsSortedByValue(price_levels.resistance_details)
        /\ ValuesOfDetails(price_levels.supports, price_levels.support_details)
        /\ ValuesOfDetails(price_levels.resistances, price_levels.resistance_details)
        /\ AllPositive(price_levels.support_details)
        /\ AllPositive(price_levels.resistance_details)

\* C2 witness: a result with several supports and resistances, a migrated
\* broken top among the supports, and non-positive round numbers that had to
\* be discarded.
C2_Witness ==
    /\ pc = "return"
    /\ Len(price_levels.support_details) >= 3
    /\ Len(price_levels.resistance_details) >= 2
    /\ \E i \in 1..Len(price_levels.support_details) :
          Contains(price_levels.support_details[i].tags, "topo_rompido")
    /\ \E i \in 1..Len(price_levels.round_numbers) : price_levels.round_numbers[i] <= 0

SumOfWeights(contribs) == SeqSum([k \in 1..Len(contribs) |-> contribs[k][2]])
SumOfWeightedValues(contribs) ==
    SeqSum([k \in 1..Len(contribs) |-> contribs[k][1] * contribs[k][2]])

\* C3: in the merge pass, every consolidated detail's weight is the sum of the
\* weights merged into it, its value is their weight-weighted mean, and its
\* count is the number of contributions.
C3_MergeIsWeightedMean ==
    /\ Len(candidates) = Len(contributions)
    /\ \A i \in 1..Len(candidates) :
          /\ candidates[i].weight = SumOfWeights(contributions[i])
          /\ candidates[i].count = Len(contributions[i])
          /\ candidates[i].value[1] * SumOfWeights(contributions[i])
                = candidates[i].value[2] * SumOfWeightedValues(contributions[i])

\* C3 witness: a detail that absorbed at least three contributions with
\* different values and different weights.
C3_Witness ==
    \E i \in 1..Len(candidates) :
        /\ candidates[i].count >= 3
        /\ \E a, b \in 1..Len(contributions[i]) :
              /\ contributions[i][a][1] # contributions[i][b][1]
              /\ contributions[i][a][2] # contributions[i][b][2]

\* resistance_details of consolidate_levels when the merge pass is over and
\* the migration loop has not begun.
MergedResistances(frame) ==
    LET df == sort_index(frame)
        close_series == Column(df, "Close")
        high_series == GetColumn(df, "High", close_series)
    IN AddAll(<<>>, ResistanceCandidates(
                        high_series,
                        resample_weekly(Column(df, "Date"), high_series, "max"),
                        detect_round_numbers(close_series, round_step, round_width),
                        compute_special_levels(df)))

\* The support pool as the merge pass leaves it.
MergedSupports(frame) ==
    LET df == sort_index(frame)
        close_series == Column(df, "Close")
        low_series == GetColumn(df, "Low", close_series)
    IN AddAll(<<>>, SupportCandidates(
                        low_series,
                        resample_weekly(Column(df, "Date"), low_series, "min"),
                        detect_round_numbers(close_series, round_step, round_width),
                        compute_special_levels(df)))

InPool(details, detail) == \E i \in 1..Len(details) : details[i] = detail

\* The detail as a broken top: the tag added, 2.0 more weight, value and
\* count as they were.
AsBrokenTop(detail) ==
    [value |-> detail.value, count |-> detail.count, weight |-> detail.weight + 20,
     tags |-> Append(detail.tags, "topo_rompido")]

WeeklySwingBelow(detail, price) ==
    /\ \E t \in 1..Len(detail.tags) : detail.tags[t] = "swing_semanal"
    /\ detail.value[1] < price * detail.value[2]

\* C24: every merged resistance detail that carries the weekly-swing tag and
\* lies strictly below the latest close is among the returned supports as a
\* broken top (tag added, weight + 2.0, value and count unchanged) and not
\* among the returned resistances; every other merged resistance detail is
\* among the returned resistances unchanged and not among the supports; the
\* returned resistances hold nothing else and the returned supports hold the
\* merged supports and the broken tops, so each detail is in one pool.
C24_BrokenTopsMigrate ==
    pc = "return" =>
        LET merged == MergedResistances(level_df)
            latest == price_levels.latest_price
        IN /\ \A i \in 1..Len(merged) :
                 IF WeeklySwingBelow(merged[i], latest)
                    THEN /\ InPool(price_levels.support_details, AsBrokenTop(merged[i]))
                         /\ ~InPool(price_levels.resistance_details, merged[i])
                         /\ ~InPool(price_levels.resistance_details, AsBrokenTop(merged[i]))
                    ELSE /\ InPool(price_levels.resistance_details, merged[i])
                         /\ ~InPool(price_levels.support_details, AsBrokenTop(merged[i]))
           /\ Len(price_levels.resistance_details)
                 = Cardinality({i \in 1..Len(merged) : ~WeeklySwingBelow(merged[i], latest)})
           /\ Len(price_levels.support_details)
                 = Len(MergedSupports(level_df))
                   + Cardinality({i \in 1..Len(merged) : WeeklySwingBelow(merged[i], latest)})
           /\ Cardinality({k \in 1..Len(price_levels.support_details) :
                              Contains(price_levels.support_details[k].tags, "topo_rompido")})
                 = Cardinality({i \in 1..Len(merged) : WeeklySwingBelow(merged[i], latest)})

\* C24 witness: one weekly-swing resistance below the latest close has
\* migrated and another one, at or above the latest close, has stayed.
C24_Witness ==
    /\ pc = "return"
    /\ \E k \in 1..Len(price_levels.support_details) :
          Contains(price_levels.support_details[k].tags, "topo_rompido")
    /\ \E k \in 1..Len(price_levels.resistance_details) :
          /\ Contains(price_levels.resistance_details[k].tags, "swing_semanal")
          /\ ~WeeklySwingBelow(price_levels.resistance_details[k], price_levels.latest_price)

(***************************************************************************)
(* consolidate_levels on the long scenarios: a flat series and series      *)
(* that rise by a constant step, every bar with High = Low = Close         *)
(***************************************************************************)
\* Bars of a scenario series.
ScenarioBars == 300
\* The largest rise of the close from one bar to the next (0: a flat series).
MaxStep == 4
\* The close of the first bar of a rising series: from 19000 on, the round
\* numbers below the last close are within 1% of it.
ScenarioStarts == {37, 100, 101, 250, 1000, 19000}
\* The close of a flat series: a round number or a price with no round number
\* within 1% of it.
FlatCloses == {37, 100, 250}
\* Trading days of a week: bars on every calendar day, or on weekdays only.
TradingDays == {5, 7}

ScenarioDate(k, days) == ((k - 1) \div days) * DaysPerWeek + ((k - 1) % days)

ScenarioFrame(n, start, step, days) ==
    [k \in 1..n |->
        LET close == start + (k - 1) * step
        IN [Date |-> ScenarioDate(k, days), Close |-> close,
            High |-> close, Low |-> close]]

InitScenario ==
    /\ pc = "call"
    /\ \E start \in ScenarioStarts, step \in 0..MaxStep, days \in TradingDays :
          /\ step = 0 => start \in FlatCloses
          /\ level_df = ScenarioFrame(ScenarioBars, start, step, days)
    /\ price_levels = None
    /\ MergeIdle /\ FibIdle /\ OthersIdle

SpecScenario == InitScenario /\ [][NextLevels]_vars

NoiseFree(df) ==
    \A k \in 1..Len(df) : df[k].High = df[k].Close /\ df[k].Low = df[k].Close

FlatAt(df, value) == NoiseFree(df) /\ \A k \in 1..Len(df) : df[k].Close = value

StrictlyIncreasing(df) ==
    NoiseFree(df) /\ \A k \in 1..(Len(df) - 1) : df[k].Close < df[k + 1].Close

AsLevels(values) == [k \in 1..Len(values) |-> Rat(values[k], 1)]

\* C11 as stated: after consolidate_levels returns on a series flat at 100,
\* the round numbers contain 100 and the returned supports and resistances
\* are both empty.
C11_FlatSeriesNoLevels ==
    (pc = "return" /\ FlatAt(level_df, 100)) =>
        /\ Contains(price_levels.round_numbers, 100)
        /\ price_levels.supports = <<>>
        /\ price_levels.resistances = <<>>

\* C11 amended: after consolidate_levels returns on a series flat at 100, the
\* round numbers are 75, 80, ..., 125 (so they contain 100) and the returned
\* supports and the returned resistances are both that list of eleven levels:
\* every round number is a candidate of both pools, and the level at 100 has
\* absorbed the swing, weekly, 52-week and historical candidates.
C11_FlatSeriesRoundLevels ==
    (pc = "return" /\ FlatAt(level_df, 100)) =>
        /\ price_levels.round_numbers = [i \in 1..11 |-> 75 + 5 * (i - 1)]
        /\ Contains(price_levels.round_numbers, 100)
        /\ price_levels.supports = AsLevels(price_levels.round_numbers)
        /\ price_levels.resistances = AsLevels(price_levels.round_numbers)

TagsAt(details, value) ==
    UNION {{details[i].tags[t] : t \in 1..Len(details[i].tags)} :
              i \in {j \in 1..Len(details) : RatEq(details[j].value, Rat(value, 1))}}

\* C11 witness: the call has returned on the flat series of ScenarioBars bars
\* and the support at 100 carries every kind of candidate.
C11_Witness ==
    /\ pc = "return"
    /\ FlatAt(level_df, 100)
    /\ Len(level_df) = ScenarioBars
    /\ TagsAt(price_levels.support_details, 100)
          = {"swing_curto", "swing_medio", "swing_longo", "swing_semanal",
             "numero_redondo", "minimo_52s", "minimo_historico"}

LatestClose == Rat(price_levels.latest_price, 1)

RoundNumberNearLatestClose ==
    \E j \in 1..Len(price_levels.round_numbers) :
        /\ price_levels.round_numbers[j] > 0
        /\ WithinTolerance(LatestClose, price_levels.round_numbers[j],
                           grouping_tolerance_pct * 2)

C12_WitnessRoundNumberNear ==
    /\ pc = "return"
    /\ StrictlyIncreasing(level_df)
    /\ RoundNumberNearLatestClose
    /\ price_levels.resistances = <<>>

(***************************************************************************)
(* analysis/fibonacci.py                                                   *)
(***************************************************************************)
\* DEFAULT_RETRACEMENT_RATIOS and DEFAULT_EXTENSION_RATIOS, in thousandths.
DEFAULT_RETRACEMENT_RATIOS == <<0, 236, 382, 500, 618, 786, 1000>>
DEFAULT_EXTENSION_RATIOS == <<1272, 1618, 2000>>

order_short == 3
order_long == 8
DefaultLookback == 252

\* _positions(series, order, comparator)
positions(series, order, comparator) ==
    IF Len(series) < order * 2 + 1 THEN {}
    ELSE LET found == argrelextrema(series, comparator, order)
         IN {found[k] : k \in 1..Len(found)}

\* np.nanargmax / np.nanargmin: the first position of the extreme value.
nanargmax(values) ==
    SetMin({i \in 1..Len(values) : \A j \in 1..Len(values) : values[i] >= values[j]})
nanargmin(values) ==
    SetMin({i \in 1..Len(values) : \A j \in 1..Len(values) : values[i] <= values[j]})

\* The extremes list after extremes.sort(key=position): every high position
\* was appended before every low position and the sort is stable, so at one
\* position "max" precedes "min".
RECURSIVE ExtremesUpTo(_, _, _)
ExtremesUpTo(k, high_positions, low_positions) ==
    IF k = 0 THEN <<>>
    ELSE ExtremesUpTo(k - 1, high_positions, low_positions)
         \o (IF k \in high_positions THEN << <<k, "max">> >> ELSE <<>>)
         \o (IF k \in low_positions THEN << <<k, "min">> >> ELSE <<>>)

\* for pos, kind in reversed(extremes[:-1]): the first of the opposite kind,
\* 0 standing for None.
OppositePos(extremes, opposite_kind) ==
    LET hits == {k \in 1..(Len(extremes) - 1) : extremes[k][2] = opposite_kind}
    IN IF hits = {} THEN 0 ELSE extremes[SetMax(hits)][1]

\* The tuple _find_recent_swing returns for positions high_pos and low_pos.
SwingAt(high_vals, low_vals, dates, high_pos, low_pos) ==
    [base_high |-> high_vals[high_pos], base_low |-> low_vals[low_pos],
     high_date |-> dates[high_pos], low_date |-> dates[low_pos]]

\* if high_pos < low_pos: high_pos, low_pos = low_pos, high_pos
SwingOrdered(high_vals, low_vals, dates, high_pos, low_pos) ==
    IF high_pos < low_pos
       THEN SwingAt(high_vals, low_vals, dates, low_pos, high_pos)
       ELSE SwingAt(high_vals, low_vals, dates, high_pos, low_pos)

\* The swing of the last extreme and the position of the latest extreme of
\* the opposite kind, 0 when there is none.
SwingOfOpposite(high_vals, low_vals, dates, last_pos, last_kind, opposite_pos) ==
    SwingOrdered(high_vals, low_vals, dates,
                 IF opposite_pos = 0 THEN nanargmax(high_vals)
                 ELSE IF last_kind = "max" THEN last_pos ELSE opposite_pos,
                 IF opposite_pos = 0 THEN nanargmin(low_vals)
                 ELSE IF last_kind = "max" THEN opposite_pos ELSE last_pos)

\* last_pos, last_kind = extremes[-1], and the search for the opposite kind.
SwingOfLast(high_vals, low_vals, dates, extremes, last_pos, last_kind) ==
    SwingOfOpposite(high_vals, low_vals, dates, last_pos, last_kind,
                    OppositePos(extremes, IF last_kind = "max" THEN "min" ELSE "max"))

SwingOfExtremes(high_vals, low_vals, dates, extremes) ==
    SwingOfLast(high_vals, low_vals, dates, extremes,
                extremes[Len(extremes)][1], extremes[Len(extremes)][2])

\* _find_recent_swing once the positions of the highs and lows are known.
SwingOfPositions(high_vals, low_vals, dates, high_positions, low_positions) ==
    IF high_positions = {} \/ low_positions = {}
       THEN SwingAt(high_vals, low_vals, dates,
                    nanargmax(high_vals), nanargmin(low_vals))
       ELSE SwingOfExtremes(high_vals, low_vals, dates,
                            ExtremesUpTo(Len(high_vals), high_positions, low_positions))

\* _find_recent_swing(high_series, low_series) on a non-empty frame.
find_recent_swing(high_vals, low_vals, dates) ==
    SwingOfPositions(high_vals, low_vals, dates,
                     positions(high_vals, order_short, "greater_equal")
                         \cup positions(high_vals, order_long, "greater_equal"),
                     positions(low_vals, order_short, "less_equal")
                         \cup positions(low_vals, order_long, "less_equal"))

\* data.tail(lookback)
tail(df, count) ==
    IF count >= Len(df) THEN df ELSE SubSeq(df, Len(df) - count + 1, Len(df))

\* A price level is <<thousandths, billionths>>: thousandths / 10^3 +
\* billionths / 10^9. diff is <<units, millionths>>: either the swing height
\* in whole units or the 1e-6 that stands in for a zero height.
PriceAsLevel(price) == <<price * 1000, 0>>

SwingDiff(base_high, base_low) ==
    IF base_high # base_low THEN <<base_high - base_low, 0>> ELSE <<0, 1>>

\* level = base_high - diff * ratio
retracement(base_high, diff, ratio) ==
    <<base_high * 1000 - diff[1] * ratio, 0 - diff[2] * ratio>>

\* level = base_high + diff * (ratio - 1)
extension(base_high, diff, ratio) ==
    <<base_high * 1000 + diff[1] * (ratio - 1000), diff[2] * (ratio - 1000)>>

\* The keys f"Ret_{int(ratio * 100)}" and f"Ext_{int(ratio * 100)}".
LevelKey(prefix, ratio) == <<prefix, ratio \div 10>>

\* The ratio a key of the levels dictionary was made from.
RatioOf(key) ==
    IF key[1] = "Ret"
       THEN CHOOSE r \in {DEFAULT_RETRACEMENT_RATIOS[k] :
                             k \in 1..Len(DEFAULT_RETRACEMENT_RATIOS)} :
                LevelKey("Ret", r) = key
       ELSE CHOOSE r \in {DEFAULT_EXTENSION_RATIOS[k] :
                             k \in 1..Len(DEFAULT_EXTENSION_RATIOS)} :
                LevelKey("Ext", r) = key

\* The FibonacciLevels built from the swing and diff.
FibonacciLevels(swing, diff) ==
    LET keys == {LevelKey("Ret", DEFAULT_RETRACEMENT_RATIOS[k]) :
                    k \in 1..Len(DEFAULT_RETRACEMENT_RATIOS)}
                \cup {LevelKey("Ext", DEFAULT_EXTENSION_RATIOS[k]) :
                         k \in 1..Len(DEFAULT_EXTENSION_RATIOS)}
    IN [levels |-> [key \in keys |->
                       IF key[1] = "Ret"
                          THEN retracement(swing.base_high, diff, RatioOf(key))
                          ELSE extension(swing.base_high, diff, RatioOf(key))],
        base_high |-> swing.base_high,
        base_low |-> swing.base_low,
        high_date |-> swing.high_date,
        low_date |-> swing.low_date]

RetracementsOfSwing(swing) ==
    FibonacciLevels(swing, SwingDiff(swing.base_high, swing.base_low))

\* compute_retracements on the rows the lookback keeps: the High and Low
\* columns fall back to Close.
RetracementsOfData(data, close) ==
    RetracementsOfSwing(find_recent_swing(GetColumn(data, "High", close),
                                          GetColumn(data, "Low", close),
                                          Column(data, "Date")))

RetracementsOfTail(data) == RetracementsOfData(data, Column(data, "Close"))

\* compute_retracements(df, lookback=lookback) on a frame without missing
\* values.
compute_retracements(df, lookback_arg) ==
    RetracementsOfTail(IF lookback_arg > 0 THEN tail(df, lookback_arg) ELSE df)

(***************************************************************************)
(* compute_retracements on a family of frames                              *)
(***************************************************************************)
FibBase == 10
Lookbacks == {0, 5, DefaultLookback}

InitFib ==
    /\ pc = "call"
    /\ \E n \in 1..MaxFibBars :
          \E offs \in [1..n -> PriceOffsets], spread \in Spreads,
             reps \in {1, MaxFibReps} :
              fib_df = Frame(n, FibBase, offs, 1, spread, reps)
    /\ lookback \in Lookbacks
    /\ fibonacci = None
    /\ MergeIdle /\ LevelsIdle /\ OthersIdle

ComputeRetracements ==
    /\ pc = "call"
    /\ fibonacci' = compute_retracements(fib_df, lookback)
    /\ pc' = "return"
    /\ UNCHANGED <<fib_df, lookback, mergeVars, levelVars, otherVars>>

NextFib == ComputeRetracements

SpecFib == InitFib /\ [][NextFib]_vars

\* C4: the FibonacciLevels returned for a non-empty frame has
\* base_high >= base_low.
C4_BaseHighAtLeastBaseLow ==
    pc = "return" => fibonacci.base_high >= fibonacci.base_low

\* C5: in every result, Ret_0 equals base_high and Ret_100 equals base_low
\* exactly, also when base_high equals base_low.
C5_RetracementEndpointsExact ==
    pc = "return" =>
        /\ fibonacci.levels[<<"Ret", 0>>] = PriceAsLevel(fibonacci.base_high)
        /\ fibonacci.levels[<<"Ret", 100>>] = PriceAsLevel(fibonacci.base_low)

\* The positions <<high_pos, low_pos>> _find_recent_swing has selected when it
\* reaches the test `if high_pos < low_pos`.
SelectedOfExtremes(high_vals, low_vals, extremes) ==
    LET last == extremes[Len(extremes)]
        opposite_pos == OppositePos(extremes, IF last[2] = "max" THEN "min" ELSE "max")
    IN IF opposite_pos = 0 THEN <<nanargmax(high_vals), nanargmin(low_vals)>>
       ELSE IF last[2] = "max" THEN <<last[1], opposite_pos>>
       ELSE <<opposite_pos, last[1]>>

\* The swing-high and swing-low positions _find_recent_swing selects: those of
\* the overall extremes when either scale-merged pivot list is empty, those of
\* the last pivot and its opposite otherwise.
SelectedSwingPositions(high_vals, low_vals) ==
    LET high_positions == positions(high_vals, order_short, "greater_equal")
                              \cup positions(high_vals, order_long, "greater_equal")
        low_positions == positions(low_vals, order_short, "less_equal")
                             \cup positions(low_vals, order_long, "less_equal")
    IN IF high_positions = {} \/ low_positions = {}
          THEN <<nanargmax(high_vals), nanargmin(low_vals)>>
          ELSE SelectedOfExtremes(high_vals, low_vals,
                   ExtremesUpTo(Len(high_vals), high_positions, low_positions))

\* The rows compute_retracements keeps of the frame of the call.
SwingData == IF lookback > 0 THEN tail(fib_df, lookback) ELSE fib_df
SwingHighs == GetColumn(SwingData, "High", Column(SwingData, "Close"))
SwingLows == GetColumn(SwingData, "Low", Column(SwingData, "Close"))
SwingSelected == SelectedSwingPositions(SwingHighs, SwingLows)

\* C27: base_high is the High at the selected swing-high position and
\* base_low the Low at the selected swing-low position, and when the swing
\* high comes before the swing low the result has high_date < low_date.
C27_AnchorsByValueDatesKept ==
    pc = "return" =>
        /\ fibonacci.base_high = SwingHighs[SwingSelected[1]]
        /\ fibonacci.base_low = SwingLows[SwingSelected[2]]
        /\ SwingSelected[1] < SwingSelected[2] =>
              fibonacci.high_date < fibonacci.low_date

(***************************************************************************)
(* analysis/divergence.py                                                  *)
(***************************************************************************)
\* A series is a sequence of rows [t, v, nan]: the index label t, the value v
\* and whether the value is missing.
\* series.dropna()
dropna(series) == SelectSeq(series, LAMBDA row : ~row.nan)

\* series.loc[labels]: the rows of the given labels, in their order.
loc(series, labels) ==
    [k \in 1..Len(labels) |->
        series[CHOOSE i \in 1..Len(series) : series[i].t = labels[k]]]

Values(series) == [k \in 1..Len(series) |-> series[k].v]
Labels(series) == [k \in 1..Len(series) |-> series[k].t]

\* _extrema(series, order, comparator)
extrema(series, ord, comparator) == argrelextrema(Values(series), comparator, ord)

\* zip(found[:-1], found[1:]) without the pairs that the min_distance test skips.
PivotPairs(found, min_dist) ==
    LET pairs == [k \in 1..(Len(found) - 1) |-> <<found[k], found[k + 1]>>]
    IN SelectSeq(pairs, LAMBDA pr : ~(pr[2] - pr[1] < min_dist))

IsBullishPair(price_rows, ind_rows, pr) ==
    /\ price_rows[pr[2]].v < price_rows[pr[1]].v
    /\ ind_rows[pr[2]].v > ind_rows[pr[1]].v

IsBearishPair(price_rows, ind_rows, pr) ==
    /\ price_rows[pr[2]].v > price_rows[pr[1]].v
    /\ ind_rows[pr[2]].v < ind_rows[pr[1]].v

\* The pairs of the first loop that yield a signal.
BullishPairs(price_rows, ind_rows, ord, min_dist) ==
    SelectSeq(PivotPairs(extrema(price_rows, ord, "less_equal"), min_dist),
              LAMBDA pr : IsBullishPair(price_rows, ind_rows, pr))

BearishPairsOfLows(price_rows, ind_rows, ord, min_dist) ==
    SelectSeq(PivotPairs(extrema(price_rows, ord, "less_equal"), min_dist),
              LAMBDA pr : IsBearishPair(price_rows, ind_rows, pr))

\* The pairs of the second loop that yield a signal.
BearishPairs(price_rows, ind_rows, ord, min_dist) ==
    SelectSeq(PivotPairs(extrema(price_rows, ord, "greater_equal"), min_dist),
              LAMBDA pr : IsBearishPair(price_rows, ind_rows, pr))

\* DivergenceSignal(kind, price_index, price_level, indicator_level, indicator)
DivergenceSignal(kind, price_rows, ind_rows, pr, name) ==
    [kind |-> kind,
     price_index |-> price_rows[pr[2]].t,
     price_level |-> price_rows[pr[2]].v,
     indicator_level |-> ind_rows[pr[2]].v,
     indicator |-> name]

Signals(kind, pairs, price_rows, ind_rows, name) ==
    [k \in 1..Len(pairs) |-> DivergenceSignal(kind, price_rows, ind_rows, pairs[k], name)]

TaggedPairs(kind, pairs) ==
    [k \in 1..Len(pairs) |-> [kind |-> kind, idx1 |-> pairs[k][1], idx2 |-> pairs[k][2]]]

\* indicator.iloc[idx] raises IndexError for a pair that passes the
\* min_distance test and reaches beyond the rows left after dropna().
RaisesIndexError(price_rows, ind_rows, ord, min_dist) ==
    LET tested == PivotPairs(extrema(price_rows, ord, "less_equal"), min_dist)
                  \o PivotPairs(extrema(price_rows, ord, "greater_equal"), min_dist)
    IN \E k \in 1..Len(tested) : tested[k][2] > Len(ind_rows)

\* detect_rsi_divergences / detect_obv_divergences /
\* detect_macd_histogram_divergences: one body, three indicator names.
\* The result says whether the call raised, and the list it returned.
detect_divergences(price_series, indicator_series, ord, min_dist, name) ==
    LET price_rows == dropna(price_series)
        ind_rows == dropna(loc(indicator_series, Labels(price_rows)))
    IN IF RaisesIndexError(price_rows, ind_rows, ord, min_dist)
          THEN [raised |-> TRUE, signals |-> <<>>, pairs |-> <<>>]
          ELSE LET bullish == BullishPairs(price_rows, ind_rows, ord, min_dist)
                   bearish == BearishPairs(price_rows, ind_rows, ord, min_dist)
               IN [raised |-> FALSE,
                   signals |-> Signals("bullish", bullish, price_rows, ind_rows, name)
                               \o Signals("bearish", bearish, price_rows, ind_rows, name),
                   pairs |-> TaggedPairs("bullish", bullish)
                             \o TaggedPairs("bearish", bearish)]

(***************************************************************************)
(* The divergence detectors on a family of series, run again after the     *)
(* series have been reversed in time                                       *)
(***************************************************************************)
DivPrices == {1, 2, 3}
DivLevels == {1, 2}
\* The (order, min_distance) arguments of a call.
DivArguments == {<<1, 1>>, <<1, 2>>, <<2, 1>>}

Series(values, missing) ==
    [k \in 1..Len(values) |-> [t |-> k, v |-> values[k], nan |-> k <= missing]]

\* The same values in reverse time order, relabelled 1..n.
Reversed(series) ==
    [k \in 1..Len(series) |->
        [t |-> k, v |-> series[Len(series) + 1 - k].v,
         nan |-> series[Len(series) + 1 - k].nan]]

InitDiv ==
    /\ pc = "call"
    /\ \E n \in 1..MaxDivBars :
          \E pv \in [1..n -> DivPrices], iv \in [1..n -> DivLevels],
             missing \in 0..MaxMissing :
              /\ \A k \in 1..n : k <= missing => iv[k] = 1
              /\ prices = Series(pv, 0)
              /\ indicator = Series(iv, missing)
    /\ \E args \in DivArguments :
          /\ div_order = args[1]
          /\ min_distance = args[2]
    /\ divergences = None
    /\ pivot_pairs = <<>>
    /\ earlier = [reversed |-> FALSE, pairs |-> <<>>]
    /\ MergeIdle /\ LevelsIdle /\ FibIdle /\ BreakoutIdle /\ TrendIdle /\ SetupsIdle
    /\ WorkflowIdle

Detect(name) ==
    /\ pc = "call"
    /\ LET result == detect_divergences(prices, indicator, div_order, min_distance, name)
       IN /\ divergences' = [detector |-> name, raised |-> result.raised,
                              signals |-> result.signals]
          /\ pivot_pairs' = result.pairs
    /\ pc' = "return"
    /\ UNCHANGED <<prices, indicator, div_order, min_distance, earlier>>
    /\ UNCHANGED <<mergeVars, levelVars, fibVars, breakoutVars, trendVars, setupVars,
                   workflowVars>>

DetectRsiDivergences == Detect("RSI")
DetectObvDivergences == Detect("OBV")
DetectMacdHistogramDivergences == Detect("MACD")

\* The caller reverses both series in time and calls the detector again.
ReverseSeries ==
    /\ pc = "return"
    /\ ~earlier.reversed
    /\ prices' = Reversed(prices)
    /\ indicator' = Reversed(indicator)
    /\ earlier' = [reversed |-> TRUE, pairs |-> pivot_pairs]
    /\ divergences' = None
    /\ pivot_pairs' = <<>>
    /\ pc' = "call"
    /\ UNCHANGED <<div_order, min_distance, mergeVars, levelVars, fibVars, breakoutVars,
                   trendVars, setupVars, workflowVars>>

NextDiv ==
    \/ DetectRsiDivergences
    \/ DetectObvDivergences
    \/ DetectMacdHistogramDivergences
    \/ ReverseSeries

SpecDiv == InitDiv /\ [][NextDiv]_vars

\* The value the indicator has at the timestamp of the price pivot at position idx.
IndicatorAt(idx) ==
    LET t == dropna(prices)[idx].t
    IN indicator[CHOOSE i \in 1..Len(indicator) : indicator[i].t = t]

\* Pairs of consecutive entries of a list of pivot positions.
ConsecutivePairs(found) == {<<found[k], found[k + 1]>> : k \in 1..(Len(found) - 1)}

\* The signals that the stated conditions call for: one per pair of consecutive
\* pivots that are far enough apart and whose price and indicator move in
\* opposite directions, carrying the data of the later pivot.
ExpectedSignals(kind, comparator) ==
    LET price_rows == dropna(prices)
        pairs == ConsecutivePairs(extrema(price_rows, div_order, comparator))
        diverges(pr) ==
            /\ pr[2] - pr[1] >= min_distance
            /\ ~IndicatorAt(pr[1]).nan
            /\ ~IndicatorAt(pr[2]).nan
            /\ IF kind = "bullish"
                  THEN /\ price_rows[pr[2]].v < price_rows[pr[1]].v
                       /\ IndicatorAt(pr[2]).v > IndicatorAt(pr[1]).v
                  ELSE /\ price_rows[pr[2]].v > price_rows[pr[1]].v
                       /\ IndicatorAt(pr[2]).v < IndicatorAt(pr[1]).v
    IN {[kind |-> kind,
         price_index |-> price_rows[pr[2]].t,
         price_level |-> price_rows[pr[2]].v,
         indicator_level |-> IndicatorAt(pr[2]).v,
         indicator |-> divergences.detector] : pr \in {q \in pairs : diverges(q)}}

EmittedSignals(kind) ==
    {divergences.signals[k] : k \in {i \in 1..Len(divergences.signals) :
                                        divergences.signals[i].kind = kind}}

\* C6: A detector emits a bullish signal for a pair of consecutive price local
\* minima iff the pair is at least min_distance apart, the later price is
\* lower and the later indicator value is higher, and a bearish signal for a
\* pair of consecutive price local maxima iff the pair is at least min_distance
\* apart, the later price is higher and the later indicator value is lower;
\* every signal carries the timestamp, price and indicator value of the later
\* pivot and the name of the indicator.
C6_DivergenceSignals ==
    pc = "return" =>
        /\ EmittedSignals("bullish") = ExpectedSignals("bullish", "less_equal")
        /\ EmittedSignals("bearish") = ExpectedSignals("bearish", "greater_equal")

\* The same statement on indicators without missing values.
C6_DivergenceSignalsNoMissing ==
    (\A k \in 1..Len(indicator) : ~indicator[k].nan) => C6_DivergenceSignals

\* The pair of points of the reversed series that a pair of the original is.
Mirror(i, j) == <<Len(dropna(prices)) + 1 - j, Len(dropna(prices)) + 1 - i>>

\* C7: When a series yields a bullish divergence between two lows i < j, the
\* same detector on the time-reversed price and indicator series yields no
\* bearish divergence whose pair is those same two points, plateaus included.
C7_NoSpuriousBearishOnReversal ==
    (pc = "return" /\ earlier.reversed) =>
        \A a \in 1..Len(earlier.pairs) : \A b \in 1..Len(pivot_pairs) :
            (earlier.pairs[a].kind = "bullish" /\ pivot_pairs[b].kind = "bearish")
                => <<pivot_pairs[b].idx1, pivot_pairs[b].idx2>>
                       # Mirror(earlier.pairs[a].idx1, earlier.pairs[a].idx2)

\* A bullish divergence was found between two lows of which the first lies on a
\* plateau, being a non-strict minimum and a non-strict maximum at once; the
\* detector has run on the reversed series and found a bearish divergence there.
C7_Witness ==
    /\ pc = "return"
    /\ earlier.reversed
    /\ \E a \in 1..Len(earlier.pairs) :
          /\ earlier.pairs[a].kind = "bullish"
          /\ LET rows == dropna(prices)
                 m == Mirror(earlier.pairs[a].idx1, earlier.pairs[a].idx2)
             IN /\ Contains(extrema(rows, div_order, "less_equal"), m[2])
                /\ Contains(extrema(rows, div_order, "greater_equal"), m[2])
    /\ \E b \in 1..Len(pivot_pairs) : pivot_pairs[b].kind = "bearish"

\* The rows a detector reads the indicator from by position: the indicator
\* at the labels of the prices, the missing values dropped.
IndicatorRowsRead == dropna(loc(indicator, Labels(dropna(prices))))

\* The pivot pairs a detector examines: those of the lows, then those of the
\* highs, that pass the min_distance test.
ExaminedPairs ==
    PivotPairs(extrema(dropna(prices), div_order, "less_equal"), min_distance)
    \o PivotPairs(extrema(dropna(prices), div_order, "greater_equal"), min_distance)

\* C26: the detector does not raise, and for each pivot pair it examines the
\* two indicator values it compares are the indicator's values at the
\* timestamps of the two price pivots, missing indicator values or not.
C26_IndicatorReadAtPivotTimestamps ==
    pc = "return" =>
        /\ ~divergences.raised
        /\ \A k \in 1..Len(ExaminedPairs) : \A side \in {1, 2} :
              LET idx == ExaminedPairs[k][side]
              IN /\ idx <= Len(IndicatorRowsRead)
                 /\ IndicatorRowsRead[idx].t = dropna(prices)[idx].t

\* The pivots _extrema hands a detector: the lows and the highs of the prices.
PricePivots(comparator) == extrema(dropna(prices), div_order, comparator)

\* C28: at the divergence call site, prices with fewer than 2k+1 samples for
\* order k give no error, no low or high pivot, no pivot pair and no signal.
C28_ShortSeriesNoPivots ==
    (pc = "return" /\ Len(dropna(prices)) < 2 * div_order + 1) =>
        /\ ~divergences.raised
        /\ PricePivots("less_equal") = <<>>
        /\ PricePivots("greater_equal") = <<>>
        /\ pivot_pairs = <<>>
        /\ divergences.signals = <<>>

(***************************************************************************)
(* analysis/trend.py: breakout_signals                                     *)
(***************************************************************************)
\* An Optional value is a sequence of at most one element: <<>> is None.
\* Prices and levels are in hundredths, tolerance_pct in tenths of a percent.
BreakoutKinds == {"breakout_up", "false_breakout_up", "breakout_down", "false_breakout_down"}

\* _nearest(levels): min() keeps the first of the levels at the least distance.
nearest(levels, latest_price) ==
    IF Len(levels) = 0 THEN <<>>
    ELSE LET dist(k) == Abs(levels[k] - latest_price)
             best == SetMin({k \in 1..Len(levels) :
                                \A j \in 1..Len(levels) : dist(k) <= dist(j)})
         IN <<levels[best]>>

\* The truth value Python gives an Optional[float]: None and 0.0 are false.
Truthy(level) == Len(level) = 1 /\ level[1] # 0

\* The number a level stands for where the code multiplies or compares it.
LevelValue(level) == IF Len(level) = 1 THEN level[1] ELSE 0

\* BreakoutSignal(kind, price, reference_level, timestamp)
BreakoutSignal(kind, price, reference_level, timestamp) ==
    [kind |-> kind, price |-> price, reference_level |-> reference_level,
     timestamp |-> timestamp]

\* The four conditions, in the order the code evaluates their conjuncts; a
\* conjunct that reads price.iloc[-2] is reached only when those before it hold.
ReadsPreviousBar(kind, latest_price, level) ==
    /\ Truthy(level)
    /\ \/ kind = "false_breakout_up" /\ latest_price < LevelValue(level)
       \/ kind = "false_breakout_down" /\ latest_price > LevelValue(level)

Fires(kind, latest_price, previous_price, level, tol) ==
    /\ Truthy(level)
    /\ CASE kind = "breakout_up" ->
                latest_price * 1000 > LevelValue(level) * (1000 + tol)
         [] kind = "false_breakout_up" ->
                latest_price < LevelValue(level) /\ previous_price > LevelValue(level)
         [] kind = "breakout_down" ->
                latest_price * 1000 < LevelValue(level) * (1000 - tol)
         [] kind = "false_breakout_down" ->
                latest_price > LevelValue(level) /\ previous_price < LevelValue(level)

IsUpKind(kind) == kind \in {"breakout_up", "false_breakout_up"}

ReturnedMapOfFired(signals) ==
    [kind \in {k \in DOMAIN signals : signals[k] # <<>>} |-> signals[kind]]

\* The dictionary of the return statement: every category is a key.
ReturnedMap(signals) == signals

\* breakout_signals(price, support_levels, resistance_levels, tolerance_pct):
\* whether the call raised IndexError, and the dictionary it returned.
breakout_signals(price, supports, resistances, tol) ==
    IF Len(price) = 0 THEN [raised |-> TRUE, map |-> <<>>]
    ELSE LET latest_price == price[Len(price)].v
             timestamp == price[Len(price)].t
             nearest_support == nearest(supports, latest_price)
             nearest_resistance == nearest(resistances, latest_price)
             LevelOf(kind) == IF IsUpKind(kind) THEN nearest_resistance ELSE nearest_support
             previous_price == IF Len(price) >= 2 THEN price[Len(price) - 1].v ELSE 0
         IN IF /\ Len(price) < 2
               /\ \E kind \in BreakoutKinds :
                      ReadsPreviousBar(kind, latest_price, LevelOf(kind))
               THEN [raised |-> TRUE, map |-> <<>>]
               ELSE [raised |-> FALSE,
                     map |-> ReturnedMap(
                                [kind \in BreakoutKinds |->
                                    IF Fires(kind, latest_price, previous_price,
                                             LevelOf(kind), tol)
                                       THEN <<BreakoutSignal(kind, latest_price,
                                                             LevelValue(LevelOf(kind)),
                                                             timestamp)>>
                                       ELSE <<>>])]

(***************************************************************************)
(* breakout_signals on a family of price series and level tuples           *)
(***************************************************************************)
BreakoutPrices == {990, 1000, 1004, 1010}
BreakoutLevels == {0, 1000, 1008}
BreakoutTolerances == {0, 5}

PriceSeries(values) == [k \in 1..Len(values) |-> [t |-> k, v |-> values[k]]]

InitBreakout ==
    /\ pc = "call"
    /\ \E n \in 0..MaxPriceBars : \E values \in [1..n -> BreakoutPrices] :
          breakout_price = PriceSeries(values)
    /\ \E n \in 0..MaxLevels : support_levels \in [1..n -> BreakoutLevels]
    /\ \E n \in 0..MaxLevels : resistance_levels \in [1..n -> BreakoutLevels]
    /\ breakout_tolerance \in BreakoutTolerances
    /\ breakout = None
    /\ MergeIdle /\ LevelsIdle /\ FibIdle /\ DivIdle /\ TrendIdle /\ SetupsIdle
    /\ WorkflowIdle

BreakoutSignals ==
    /\ pc = "call"
    /\ breakout' = breakout_signals(breakout_price, support_levels, resistance_levels,
                                    breakout_tolerance)
    /\ pc' = "return"
    /\ UNCHANGED <<breakout_price, support_levels, resistance_levels, breakout_tolerance>>
    /\ UNCHANGED <<mergeVars, levelVars, fibVars, divVars, trendVars, setupVars,
                   workflowVars>>

NextBreakout == BreakoutSignals

SpecBreakout == InitBreakout /\ [][NextBreakout]_vars

LatestPrice == breakout_price[Len(breakout_price)].v
NearestResistance == nearest(resistance_levels, LatestPrice)
NearestSupport == nearest(support_levels, LatestPrice)

\* The price of the bar before the latest is above (below) the level.
PrecedingAbove(level) ==
    Len(breakout_price) >= 2 /\ breakout_price[Len(breakout_price) - 1].v > level
PrecedingBelow(level) ==
    Len(breakout_price) >= 2 /\ breakout_price[Len(breakout_price) - 1].v < level

\* The price's distance from the level, as a percentage of the level, is more
\* than the tolerance.
BeyondTolerance(level) ==
    Abs(LatestPrice - level) * 1000 > level * breakout_tolerance

\* No level of the tuple is nearer to the latest price than this one.
IsNearestOf(levels, level) ==
    /\ \E k \in 1..Len(levels) : levels[k] = level
    /\ \A k \in 1..Len(levels) :
          Abs(level - LatestPrice) <= Abs(levels[k] - LatestPrice)

\* C29: of a call that returns: breakout_up is emitted iff a resistance exists
\* and the latest price is above R * (1 + tolerance / 100); false_breakout_up
\* iff the latest price is below R and the preceding bar was above R; the
\* symmetric rules hold against the support S; R and S are the levels nearest
\* to the latest price; every emitted signal, of any kind, has the price
\* farther from its level than the tolerance; each category has at most one
\* signal.
C29_BreakoutRules ==
    (pc = "return" /\ ~breakout.raised) =>
        /\ breakout.map["breakout_up"] # <<>> <=>
              /\ NearestResistance # <<>>
              /\ LatestPrice * 1000 > NearestResistance[1] * (1000 + breakout_tolerance)
        /\ breakout.map["false_breakout_up"] # <<>> <=>
              /\ NearestResistance # <<>>
              /\ LatestPrice < NearestResistance[1]
              /\ PrecedingAbove(NearestResistance[1])
        /\ breakout.map["breakout_down"] # <<>> <=>
              /\ NearestSupport # <<>>
              /\ LatestPrice * 1000 < NearestSupport[1] * (1000 - breakout_tolerance)
        /\ breakout.map["false_breakout_down"] # <<>> <=>
              /\ NearestSupport # <<>>
              /\ LatestPrice > NearestSupport[1]
              /\ PrecedingBelow(NearestSupport[1])
        /\ \A kind \in BreakoutKinds :
              /\ Len(breakout.map[kind]) <= 1
              /\ breakout.map[kind] # <<>> =>
                    /\ IsNearestOf(IF IsUpKind(kind) THEN resistance_levels
                                   ELSE support_levels,
                                   breakout.map[kind][1].reference_level)
                    /\ BeyondTolerance(breakout.map[kind][1].reference_level)

(***************************************************************************)
(* analysis/trend.py: trend_strength                                       *)
(***************************************************************************)
\* Averages and slopes are exact fractions <<numerator, denominator>> with a
\* positive denominator; a missing value (NaN) is <<>>.
RatAdd(a, b) ==
    LET g == GCD(a[2], b[2])
    IN Rat(a[1] * (b[2] \div g) + b[1] * (a[2] \div g), (a[2] \div g) * b[2])
RatScale(k, a) == Rat(k * a[1], a[2])
RatSum(s) ==
    LET RECURSIVE Upto(_)
        Upto(k) == IF k = 0 THEN <<0, 1>> ELSE RatAdd(Upto(k - 1), s[k])
    IN Upto(Len(s))

\* indicators.ema: series.ewm(span=window, adjust=False).mean() on a series
\* whose missing values all come first. The average is missing up to the
\* first value, starts at it, and then moves by alpha = 2 / (window + 1):
\* y[t] = ((window - 1) * y[t-1] + 2 * x[t]) / (window + 1).
ema(series, window) ==
    LET RECURSIVE Upto(_)
        Upto(k) ==
            IF k = 0 THEN <<>>
            ELSE LET before == Upto(k - 1)
                     last == IF k = 1 THEN <<>> ELSE before[k - 1]
                 IN Append(before,
                           IF series[k].nan THEN <<>>
                           ELSE IF last = <<>> THEN <<series[k].v, 1>>
                           ELSE Rat((window - 1) * last[1] + 2 * series[k].v * last[2],
                                    (window + 1) * last[2]))
    IN Upto(Len(series))

\* _slope(values): the slope of the least-squares line through the points
\* (0, y[0]), (1, y[1]), ... of the values that are present; 0.0 for fewer
\* than two of them.
slope(values) ==
    LET y == SelectSeq(values, LAMBDA v : v # <<>>)
        m == Len(y)
    IN IF m < 2 THEN <<0, 1>>
       ELSE LET sum_x == (m * (m - 1)) \div 2
                sum_xx == ((m - 1) * m * (2 * m - 1)) \div 6
                sum_y == RatSum(y)
                sum_xy == RatSum([k \in 1..m |-> RatScale(k - 1, y[k])])
                top == RatAdd(RatScale(m, sum_xy), RatScale(0 - sum_x, sum_y))
            IN Rat(top[1], top[2] * (m * sum_xx - sum_x * sum_x))

direction_non_strict(slope_short, slope_medium, slope_long) ==
    IF slope_short[1] >= 0 /\ slope_medium[1] >= 0 /\ slope_long[1] >= 0 THEN "uptrend"
    ELSE IF slope_short[1] <= 0 /\ slope_medium[1] <= 0 /\ slope_long[1] <= 0
            THEN "downtrend"
    ELSE "sideways"

\* The direction label of trend_strength.
direction(slope_short, slope_medium, slope_long) ==
    IF slope_short[1] > 0 /\ slope_medium[1] > 0 /\ slope_long[1] > 0 THEN "uptrend"
    ELSE IF slope_short[1] < 0 /\ slope_medium[1] < 0 /\ slope_long[1] < 0
            THEN "downtrend"
    ELSE "sideways"

\* a > b > c on values of which any may be missing: a comparison with NaN is
\* false.
Descending(a, b, c) ==
    /\ a # <<>> /\ b # <<>> /\ c # <<>>
    /\ RatLess(b, a)
    /\ RatLess(c, b)

\* The crossover label of trend_strength.
crossover(last_short, last_medium, last_long) ==
    IF Descending(last_short, last_medium, last_long) THEN "bullish_stack"
    ELSE IF Descending(last_long, last_medium, last_short) THEN "bearish_stack"
    ELSE "mixed"

\* trend_strength(close, short_window, medium_window, long_window): whether
\* the call raised IndexError (ema_short.iloc[-1] of an empty series), and the
\* TrendSnapshot it returned.
trend_strength(close_series, short_window, medium_window, long_window) ==
    LET ema_short == ema(close_series, short_window)
        ema_medium == ema(close_series, medium_window)
        ema_long == ema(close_series, long_window)
        slope_short == slope(tail(ema_short, short_window))
        slope_medium == slope(tail(ema_medium, medium_window))
        slope_long == slope(tail(ema_long, long_window))
        n == Len(close_series)
    IN IF n = 0 THEN [raised |-> TRUE]
       ELSE [raised |-> FALSE,
             direction |-> direction(slope_short, slope_medium, slope_long),
             slope_short |-> slope_short,
             slope_medium |-> slope_medium,
             slope_long |-> slope_long,
             crossover |-> crossover(ema_short[n], ema_medium[n], ema_long[n])]

(***************************************************************************)
(* trend_strength on a family of close series                              *)
(***************************************************************************)
TrendPrices == {1, 2, 3}
TrendWindows == {<<1, 2, 3>>, <<2, 3, 4>>, <<3, 3, 2>>}
MissingAtHead == {0, 1}

InitTrend ==
    /\ pc = "call"
    /\ \E n \in 0..MaxTrendBars :
          \E values \in [1..n -> TrendPrices], missing \in MissingAtHead :
              /\ missing <= n
              /\ \A k \in 1..n : k <= missing => values[k] = 1
              /\ trend_close = Series(values, missing)
    /\ trend_windows \in TrendWindows
    /\ trend = None
    /\ MergeIdle /\ LevelsIdle /\ FibIdle /\ DivIdle /\ BreakoutIdle /\ SetupsIdle
    /\ WorkflowIdle

TrendStrength ==
    /\ pc = "call"
    /\ trend' = trend_strength(trend_close, trend_windows[1], trend_windows[2],
                               trend_windows[3])
    /\ pc' = "return"
    /\ UNCHANGED <<trend_close, trend_windows>>
    /\ UNCHANGED <<mergeVars, levelVars, fibVars, divVars, breakoutVars, setupVars,
                   workflowVars>>

NextTrend == TrendStrength

SpecTrend == InitTrend /\ [][NextTrend]_vars

Positive(x) == x[1] > 0
Negative(x) == x[1] < 0

\* C9: trend_strength returns direction "uptrend" iff slope_short,
\* slope_medium and slope_long are all strictly positive, "downtrend" iff all
\* three are strictly negative, and "sideways" otherwise; a result in which
\* one slope is non-positive is not labelled "uptrend" whatever the other two.
C9_DirectionFromSlopeSigns ==
    (pc = "return" /\ ~trend.raised) =>
        LET up == Positive(trend.slope_short) /\ Positive(trend.slope_medium)
                  /\ Positive(trend.slope_long)
            down == Negative(trend.slope_short) /\ Negative(trend.slope_medium)
                    /\ Negative(trend.slope_long)
        IN /\ trend.direction = "uptrend" <=> up
           /\ trend.direction = "downtrend" <=> down
           /\ trend.direction = "sideways" <=> (~up /\ ~down)
           /\ trend.direction \in {"uptrend", "downtrend", "sideways"}

\* One slope is exactly zero while the other two are positive, and the
\* result is labelled "sideways".
C9_Witness ==
    /\ pc = "return"
    /\ ~trend.raised
    /\ trend.slope_short[1] = 0
    /\ Positive(trend.slope_medium)
    /\ Positive(trend.slope_long)
    /\ trend.direction = "sideways"

\* A result with a negative short slope under positive medium and long slopes.
C9_WitnessNegativeShort ==
    /\ pc = "return"
    /\ ~trend.raised
    /\ Negative(trend.slope_short)
    /\ Positive(trend.slope_medium)
    /\ Positive(trend.slope_long)

(***************************************************************************)
(* setups/engine.py                                                        *)
(***************************************************************************)
\* A cell of the indicator table is a number, NaN or a text that is not a
\* number. A call either returns a value or raises an exception whose text
\* is msg: [exc |-> <<msg>>] or [exc |-> <<>>, value |-> ...].
ValueErrorText == "could not convert string to float: 'abc'"
IndexErrorText == "single positional indexer is out-of-bounds"

Raise(msg) == [exc |-> <<msg>>, value |-> <<>>]
Return(value) == [exc |-> <<>>, value |-> value]
Raised(outcome) == outcome.exc # <<>>

\* SetupResult(name, description, active, details)
SetupResult(name, description, active, details) ==
    [name |-> name, description |-> description, active |-> active, details |-> details]

\* _trend_label(trend, price_above_ma200=...): price_above_ma200 is <<>> for
\* None, else <<TRUE>> or <<FALSE>>.
trend_label(snapshot_trend, price_above_ma200) ==
    IF snapshot_trend.direction = "uptrend"
       THEN IF /\ snapshot_trend.crossover = "bullish_stack"
               /\ (price_above_ma200 = <<>> \/ price_above_ma200 = <<TRUE>>)
               THEN "alta forte" ELSE "alta moderada"
    ELSE IF snapshot_trend.direction = "downtrend"
       THEN IF /\ snapshot_trend.crossover = "bearish_stack"
               /\ (price_above_ma200 = <<>> \/ price_above_ma200 = <<FALSE>>)
               THEN "baixa forte" ELSE "baixa moderada"
    ELSE "lateral"

HasSetupColumn(df, column) == column \in DOMAIN df

\* _float(df, column): None (<<>>) for an absent column or a NaN; IndexError
\* from .iloc[-1] on a table without rows; ValueError from float() of a text.
column_float(df, column) ==
    IF ~HasSetupColumn(df, column) THEN Return(<<>>)
    ELSE IF Len(df[column]) = 0 THEN Raise(IndexErrorText)
    ELSE LET value == df[column][Len(df[column])]
         IN IF value.kind = "nan" THEN Return(<<>>)
            ELSE IF value.kind = "text" THEN Raise(ValueErrorText)
            ELSE Return(<<value.v>>)

\* series.astype(float): ValueError when a cell is a text.
astype_float(series) ==
    IF \E k \in 1..Len(series) : series[k].kind = "text" THEN Raise(ValueErrorText)
    ELSE Return(series)

\* _lagged_values(df, column, n)
lagged_values(df, column, n) ==
    IF ~HasSetupColumn(df, column) THEN Return(<<>>)
    ELSE LET series == astype_float(SelectSeq(df[column], LAMBDA c : c.kind # "nan"))
         IN IF Raised(series) THEN series
            ELSE Return([k \in 1..Len(tail(series.value, n)) |->
                            tail(series.value, n)[k].v])

\* The first exception among calls made one after the other, <<>> if none.
FirstRaised(outcomes) ==
    LET failed == SelectSeq(outcomes, Raised)
    IN IF failed = <<>> THEN <<>> ELSE failed[1].exc

\* _setup_trend_following with a sideways weekly label accepted as well.
setup_trend_following_weekly_lateral(snapshot, df) ==
    LET ema21 == column_float(df, "EMA_21")
        volume_ratio == column_float(df, "Volume_Ratio")
        sma200 == column_float(df, "SMA_200")
        failure == FirstRaised(<<ema21, volume_ratio, sma200>>)
        price == snapshot.latest_price
        price_above_ma200 ==
            IF sma200.value = <<>> THEN <<>> ELSE <<price >= sma200.value[1]>>
        daily_label == trend_label(snapshot.trend, price_above_ma200)
        weekly_trend == snapshot.weekly
        weekly_ok ==
            IF weekly_trend = <<>> THEN TRUE
            ELSE trend_label(weekly_trend[1], price_above_ma200)
                     \in {"alta moderada", "alta forte", "lateral"}
        active ==
            /\ daily_label = "alta forte"
            /\ weekly_ok
            /\ ema21.value # <<>> /\ price >= ema21.value[1]
            /\ volume_ratio.value # <<>> /\ volume_ratio.value[1] >= 10
    IN IF failure # <<>> THEN Raise(failure[1])
       ELSE Return(<<SetupResult(
                "Trend Following",
                "Seguir tendência em alta com pullback raso.",
                active,
                IF active
                   THEN "Tendência diária/semana favorável, preço acima da EMA21 e volume >= média 20d."
                   ELSE "Requer tendência forte, preço acima da EMA21 e volume em linha com a média.")>>)

\* _setup_trend_following(snapshot, df); Volume_Ratio is in tenths.
setup_trend_following(snapshot, df) ==
    LET ema21 == column_float(df, "EMA_21")
        volume_ratio == column_float(df, "Volume_Ratio")
        sma200 == column_float(df, "SMA_200")
        failure == FirstRaised(<<ema21, volume_ratio, sma200>>)
        price == snapshot.latest_price
        price_above_ma200 ==
            IF sma200.value = <<>> THEN <<>> ELSE <<price >= sma200.value[1]>>
        daily_label == trend_label(snapshot.trend, price_above_ma200)
        weekly_trend == snapshot.weekly
        weekly_ok ==
            IF weekly_trend = <<>> THEN TRUE
            ELSE trend_label(weekly_trend[1], price_above_ma200)
                     \in {"alta moderada", "alta forte"}
        active ==
            /\ daily_label = "alta forte"
            /\ weekly_ok
            /\ ema21.value # <<>> /\ price >= ema21.value[1]
            /\ volume_ratio.value # <<>> /\ volume_ratio.value[1] >= 10
    IN IF failure # <<>> THEN Raise(failure[1])
       ELSE Return(<<SetupResult(
                "Trend Following",
                "Seguir tendência em alta com pullback raso.",
                active,
                IF active
                   THEN "Tendência diária/semana favorável, preço acima da EMA21 e volume >= média 20d."
                   ELSE "Requer tendência forte, preço acima da EMA21 e volume em linha com a média.")>>)

\* _setup_rsi_rebound(snapshot, df)
setup_rsi_rebound(snapshot, df) ==
    LET rsi_values == lagged_values(df, "RSI_14", 3)
    IN IF Raised(rsi_values) THEN rsi_values
       ELSE IF Len(rsi_values.value) < 2
          THEN Return(<<SetupResult("RSI Rebound",
                                    "Retomada a partir de sobrevenda (RSI 30).",
                                    FALSE,
                                    "RSI insuficiente para avaliar cruzamento.")>>)
       ELSE LET rsi_prev == rsi_values.value[Len(rsi_values.value) - 1]
                rsi_now == rsi_values.value[Len(rsi_values.value)]
                weekly_label == IF snapshot.weekly = <<>> THEN "lateral"
                                ELSE trend_label(snapshot.weekly[1], <<>>)
                crossed_up == rsi_prev <= 30 /\ 30 < rsi_now /\ rsi_now <= 45
                active == /\ crossed_up
                          /\ weekly_label \in {"alta moderada", "alta forte", "lateral"}
            IN Return(<<SetupResult(
                   "RSI Rebound",
                   "Compra quando RSI reacelera acima da faixa 30.",
                   active,
                   IF active
                      THEN "RSI saiu da zona de sobrevenda e semanal não está em baixa forte."
                      ELSE "Aguardando RSI cruzar 30 ou melhorar tendência semanal.")>>)

\* column[-2:]
LastTwo(column) ==
    CASE column = "EMA_9" -> "_9"
      [] column = "EMA_21" -> "21"
      [] column = "EMA_72" -> "72"

\* f"EMA Cross ({short_col[-2:]} x {long_col[-2:]}) {side}" for the two pairs
\* of columns that evaluate_setups passes.
PairName(short_col, long_col, side) ==
    CASE LastTwo(short_col) = "_9" /\ LastTwo(long_col) = "21" /\ side = "compra" ->
             "EMA Cross (_9 x 21) compra"
      [] LastTwo(short_col) = "_9" /\ LastTwo(long_col) = "21" /\ side = "venda" ->
             "EMA Cross (_9 x 21) venda"
      [] LastTwo(short_col) = "21" /\ LastTwo(long_col) = "72" /\ side = "compra" ->
             "EMA Cross (21 x 72) compra"
      [] LastTwo(short_col) = "21" /\ LastTwo(long_col) = "72" /\ side = "venda" ->
             "EMA Cross (21 x 72) venda"

\* f"EMA {short_col[-2:]} cruzando acima/abaixo da EMA {long_col[-2:]}."
CrossDescription(short_col, long_col, side) ==
    CASE LastTwo(short_col) = "_9" /\ LastTwo(long_col) = "21" /\ side = "compra" ->
             "EMA _9 cruzando acima da EMA 21."
      [] LastTwo(short_col) = "_9" /\ LastTwo(long_col) = "21" /\ side = "venda" ->
             "EMA _9 cruzando abaixo da EMA 21."
      [] LastTwo(short_col) = "21" /\ LastTwo(long_col) = "72" /\ side = "compra" ->
             "EMA 21 cruzando acima da EMA 72."
      [] LastTwo(short_col) = "21" /\ LastTwo(long_col) = "72" /\ side = "venda" ->
             "EMA 21 cruzando abaixo da EMA 72."

\* long - short in place of short - long.
DifferenceReversed(short, long) ==
    [k \in 1..Len(short) |->
        IF short[k].kind = "nan" \/ long[k].kind = "nan" THEN <<>>
        ELSE <<long[k].v - short[k].v>>]

\* short - long, a NaN wherever either is one.
Difference(short, long) ==
    [k \in 1..Len(short) |->
        IF short[k].kind = "nan" \/ long[k].kind = "nan" THEN <<>>
        ELSE <<short[k].v - long[k].v>>]

\* _ema_cross(snapshot, df, short_col, long_col)
ema_cross(snapshot, df, short_col, long_col) ==
    IF ~(HasSetupColumn(df, short_col) /\ HasSetupColumn(df, long_col)) THEN Return(<<>>)
    ELSE LET short == astype_float(df[short_col])
             long == astype_float(df[long_col])
             failure == FirstRaised(<<short, long>>)
         IN IF failure # <<>> THEN Raise(failure[1])
            ELSE LET diff == Difference(short.value, long.value)
                     n == Len(diff)
                 IN IF Len(SelectSeq(diff, LAMBDA d : d # <<>>)) < 2 THEN Return(<<>>)
                    ELSE LET latest_diff == diff[n]
                             prev_diff == diff[n - 1]
                             daily_label == trend_label(snapshot.trend, <<>>)
                             crossed_up ==
                                 /\ latest_diff # <<>> /\ prev_diff # <<>>
                                 /\ prev_diff[1] <= 0 /\ 0 < latest_diff[1]
                             crossed_down ==
                                 /\ latest_diff # <<>> /\ prev_diff # <<>>
                                 /\ prev_diff[1] >= 0 /\ 0 > latest_diff[1]
                             buy_active == daily_label \in {"alta moderada", "alta forte"}
                             sell_active == daily_label \in {"baixa moderada", "baixa forte"}
                         IN Return(
                              (IF crossed_up
                                  THEN <<SetupResult(
                                      PairName(short_col, long_col, "compra"),
                                      CrossDescription(short_col, long_col, "compra"),
                                      buy_active,
                                      IF buy_active
                                         THEN "Cruzamento de compra confirmado pela tendência diária."
                                         ELSE "Cruzamento de compra, mas tendência diária não favorece.")>>
                                  ELSE <<>>)
                              \o
                              (IF crossed_down
                                  THEN <<SetupResult(
                                      PairName(short_col, long_col, "venda"),
                                      CrossDescription(short_col, long_col, "venda"),
                                      sell_active,
                                      IF sell_active
                                         THEN "Cruzamento de venda alinhado à tendência diária."
                                         ELSE "Cruzamento de venda, porém tendência diária não está em baixa.")>>
                                  ELSE <<>>))

\* The four entries of setup_functions, by position.
NumSetupFunctions == 4
CallSetupFunction(k, snapshot, df) ==
    CASE k = 1 -> setup_trend_following(snapshot, df)
      [] k = 2 -> setup_rsi_rebound(snapshot, df)
      [] k = 3 -> ema_cross(snapshot, df, "EMA_9", "EMA_21")
      [] k = 4 -> ema_cross(snapshot, df, "EMA_21", "EMA_72")

EvaluationsErrorSkipped(outcome) ==
    IF Raised(outcome) THEN <<>> ELSE outcome.value

\* The body of the loop: the list the function returned, or in the except
\* branch one SetupResult named after the lambda.
Evaluations(outcome) ==
    IF Raised(outcome)
       THEN <<SetupResult("<lambda>", "Erro ao avaliar setup.", FALSE, outcome.exc[1])>>
       ELSE outcome.value

\* evaluate_setups(snapshot, df): the loop over setup_functions from entry k
\* on, extending results.
RECURSIVE EvaluateFrom(_, _, _, _)
EvaluateFrom(k, results, snapshot, df) ==
    IF k > NumSetupFunctions THEN results
    ELSE EvaluateFrom(k + 1,
                      results \o Evaluations(CallSetupFunction(k, snapshot, df)),
                      snapshot, df)

evaluate_setups(snapshot, df) ==
    [raised |-> FALSE, results |-> EvaluateFrom(1, <<>>, snapshot, df)]

(***************************************************************************)
(* evaluate_setups on a family of snapshots and indicator tables           *)
(***************************************************************************)
SetupColumns == {"EMA_9", "EMA_21", "EMA_72", "RSI_14", "Volume_Ratio", "SMA_200"}
SetupRows == {0, 1, 2}
SetupPrice == 10
\* An RSI value above the (30, 45] band of the RSI rebound.
RsiAboveBand == 50

\* The numbers a column holds: a low and a high one.
ColumnLevels(column) ==
    CASE column = "EMA_9" -> [lo |-> 9, hi |-> 11]
      [] column = "EMA_21" -> [lo |-> 9, hi |-> 11]
      [] column = "EMA_72" -> [lo |-> 9, hi |-> 11]
      [] column = "RSI_14" -> [lo |-> 25, hi |-> 35]
      [] column = "Volume_Ratio" -> [lo |-> 5, hi |-> 15]
      [] column = "SMA_200" -> [lo |-> 9, hi |-> 11]

\* What the last two rows of a column hold; "absent" for a column the table
\* does not have, "flat" for a column that stays at the latest price,
\* "from_price" for one that rises from it and "overshoot" for one that rises
\* to RsiAboveBand.
ColumnShapes(column) ==
    CASE column = "EMA_9" -> {"absent", "rising", "falling", "from_price", "text_first"}
      [] column = "EMA_21" -> {"absent", "rising", "falling", "flat", "text_last"}
      [] column = "EMA_72" -> {"absent", "rising", "falling", "nan_first"}
      [] column = "RSI_14" -> {"absent", "rising", "falling", "overshoot", "nan_first",
                               "text_first"}
      [] column = "Volume_Ratio" -> {"absent", "rising", "falling"}
      [] column = "SMA_200" -> {"absent", "rising", "falling", "text_last"}

NumberCell(v) == [kind |-> "num", v |-> v]
NanCell == [kind |-> "nan", v |-> 0]
TextCell == [kind |-> "text", v |-> 0]

ColumnCells(column, shape) ==
    LET lo == NumberCell(ColumnLevels(column).lo)
        hi == NumberCell(ColumnLevels(column).hi)
    IN CASE shape = "rising" -> <<lo, hi>>
         [] shape = "falling" -> <<hi, lo>>
         [] shape = "flat" -> <<NumberCell(SetupPrice), NumberCell(SetupPrice)>>
         [] shape = "from_price" -> <<NumberCell(SetupPrice), hi>>
         [] shape = "overshoot" -> <<lo, NumberCell(RsiAboveBand)>>
         [] shape = "nan_first" -> <<NanCell, hi>>
         [] shape = "text_first" -> <<TextCell, hi>>
         [] shape = "text_last" -> <<hi, TextCell>>

\* The table of the given number of rows with the columns of the given shapes.
IndicatorTable(rows, shapes) ==
    [column \in {c \in SetupColumns : shapes[c] # "absent"} |->
        tail(ColumnCells(column, shapes[column]), rows)]

SnapshotTrends ==
    {[direction |-> "uptrend", crossover |-> "bullish_stack"],
     [direction |-> "downtrend", crossover |-> "bearish_stack"],
     [direction |-> "sideways", crossover |-> "mixed"]}
WeeklyTrends ==
    {<<>>,
     <<[direction |-> "downtrend", crossover |-> "bearish_stack"]>>,
     <<[direction |-> "downtrend", crossover |-> "mixed"]>>,
     <<[direction |-> "sideways", crossover |-> "mixed"]>>,
     <<[direction |-> "uptrend", crossover |-> "mixed"]>>,
     <<[direction |-> "uptrend", crossover |-> "bullish_stack"]>>}

InitSetups ==
    /\ pc = "call"
    /\ \E daily \in SnapshotTrends, weekly \in WeeklyTrends :
          setup_snapshot = [latest_price |-> SetupPrice, trend |-> daily, weekly |-> weekly]
    /\ \E rows \in SetupRows :
          \E ema9 \in ColumnShapes("EMA_9"), ema21 \in ColumnShapes("EMA_21"),
             ema72 \in ColumnShapes("EMA_72"), rsi14 \in ColumnShapes("RSI_14"),
             ratio \in ColumnShapes("Volume_Ratio"), sma200 \in ColumnShapes("SMA_200") :
              setup_df = IndicatorTable(rows,
                             [c \in SetupColumns |->
                                 CASE c = "EMA_9" -> ema9
                                   [] c = "EMA_21" -> ema21
                                   [] c = "EMA_72" -> ema72
                                   [] c = "RSI_14" -> rsi14
                                   [] c = "Volume_Ratio" -> ratio
                                   [] c = "SMA_200" -> sma200])
    /\ setups = None
    /\ MergeIdle /\ LevelsIdle /\ FibIdle /\ DivIdle /\ BreakoutIdle /\ TrendIdle
    /\ WorkflowIdle

EvaluateSetups ==
    /\ pc = "call"
    /\ setups' = evaluate_setups(setup_snapshot, setup_df)
    /\ pc' = "return"
    /\ UNCHANGED <<setup_snapshot, setup_df>>
    /\ UNCHANGED <<mergeVars, levelVars, fibVars, divVars, breakoutVars, trendVars,
                   workflowVars>>

NextSetups == EvaluateSetups

SpecSetups == InitSetups /\ [][NextSetups]_vars

\* What setup function k does when called on its own with the same arguments.
OwnOutcome(k) == CallSetupFunction(k, setup_snapshot, setup_df)

\* How many results the functions before k contribute: one for a function
\* that raises, else as many as it returns.
RECURSIVE ResultsBefore(_)
ResultsBefore(k) ==
    IF k = 1 THEN 0
    ELSE ResultsBefore(k - 1)
         + (IF Raised(OwnOutcome(k - 1)) THEN 1 ELSE Len(OwnOutcome(k - 1).value))

\* C10: when a predicate raises, every other predicate is still evaluated and
\* its results appear unchanged and in the same relative order; the failing
\* predicate contributes exactly one SetupResult, inactive and with the
\* exception message as details; evaluate_setups itself never raises.
C10_FailingSetupIsolated ==
    pc = "return" =>
        /\ ~setups.raised
        /\ Len(setups.results) = ResultsBefore(NumSetupFunctions + 1)
        /\ \A k \in 1..NumSetupFunctions :
              IF Raised(OwnOutcome(k))
                 THEN LET r == setups.results[ResultsBefore(k) + 1]
                      IN /\ ResultsBefore(k + 1) = ResultsBefore(k) + 1
                         /\ r.active = FALSE
                         /\ r.details = OwnOutcome(k).exc[1]
                 ELSE \A i \in 1..Len(OwnOutcome(k).value) :
                         setups.results[ResultsBefore(k) + i] = OwnOutcome(k).value[i]

\* One predicate raised, a later one returned a result and an earlier one an
\* active result.
C10_Witness ==
    /\ pc = "return"
    /\ \E k \in 2..(NumSetupFunctions - 1) :
          /\ Raised(OwnOutcome(k))
          /\ \E j \in 1..(k - 1) :
                /\ ~Raised(OwnOutcome(j))
                /\ \E i \in 1..Len(OwnOutcome(j).value) : OwnOutcome(j).value[i].active
          /\ \E j \in (k + 1)..NumSetupFunctions :
                ~Raised(OwnOutcome(j)) /\ Len(OwnOutcome(j).value) >= 1

\* The number in the last row of a column, <<>> when the table has no such
\* column or no row, or the cell is not a number.
LastNumber(column) ==
    IF ~HasSetupColumn(setup_df, column) THEN <<>>
    ELSE IF Len(setup_df[column]) = 0 THEN <<>>
    ELSE IF setup_df[column][Len(setup_df[column])].kind # "num" THEN <<>>
    ELSE <<setup_df[column][Len(setup_df[column])].v>>

\* Whether _float raises on a column: the table has the column but no row,
\* or the last cell is a text.
ReadRaises(column) ==
    /\ HasSetupColumn(setup_df, column)
    /\ \/ Len(setup_df[column]) = 0
       \/ setup_df[column][Len(setup_df[column])].kind = "text"

\* Whether the latest price is at or above SMA_200, <<>> when that is unknown.
PriceAboveMa200 ==
    IF LastNumber("SMA_200") = <<>> THEN <<>>
    ELSE <<setup_snapshot.latest_price >= LastNumber("SMA_200")[1]>>

DailyLabel == trend_label(setup_snapshot.trend, PriceAboveMa200)

\* The label of the weekly trend, "lateral" when the snapshot has none.
WeeklyLabel ==
    IF setup_snapshot.weekly = <<>> THEN "lateral"
    ELSE trend_label(setup_snapshot.weekly[1], PriceAboveMa200)

\* The result evaluate_setups returns for the Trend Following setup.
TrendFollowingResult == setups.results[1]

\* C20 as stated: Trend Following is active iff the daily label is "alta
\* forte", the weekly label is sideways, moderate uptrend or strong uptrend,
\* the latest price is above EMA_21 and the volume ratio is at least 1.0.
C20_TrendFollowingWeeklyNeutral ==
    pc = "return" =>
        (TrendFollowingResult.active <=>
            /\ DailyLabel = "alta forte"
            /\ WeeklyLabel \in {"lateral", "alta moderada", "alta forte"}
            /\ LastNumber("EMA_21") # <<>>
            /\ setup_snapshot.latest_price > LastNumber("EMA_21")[1]
            /\ LastNumber("Volume_Ratio") # <<>>
            /\ LastNumber("Volume_Ratio")[1] >= 10)

\* C20 amended: Trend Following is active iff the daily label is "alta
\* forte", the snapshot has no weekly trend or its label is moderate or
\* strong uptrend, the latest price is at or above the last EMA_21, the last
\* volume ratio is at least 1.0 and no column read raises.
C20_TrendFollowingWeeklyUptrend ==
    pc = "return" =>
        (TrendFollowingResult.active <=>
            /\ ~\E c \in {"EMA_21", "Volume_Ratio", "SMA_200"} : ReadRaises(c)
            /\ DailyLabel = "alta forte"
            /\ \/ setup_snapshot.weekly = <<>>
               \/ WeeklyLabel \in {"alta moderada", "alta forte"}
            /\ LastNumber("EMA_21") # <<>>
            /\ setup_snapshot.latest_price >= LastNumber("EMA_21")[1]
            /\ LastNumber("Volume_Ratio") # <<>>
            /\ LastNumber("Volume_Ratio")[1] >= 10)

\* C20 witness: Trend Following is active under a weekly moderate uptrend
\* with the latest price exactly at EMA_21.
C20_Witness ==
    /\ pc = "return"
    /\ TrendFollowingResult.name = "Trend Following"
    /\ TrendFollowingResult.active
    /\ setup_snapshot.weekly # <<>>
    /\ WeeklyLabel = "alta moderada"
    /\ LastNumber("EMA_21") = <<setup_snapshot.latest_price>>

\* The RSI_14 values _setup_rsi_rebound can compare: the numbers of the
\* column in row order, <<>> when the table has no such column or the column
\* holds a text.
ValidRsiValues ==
    IF ~HasSetupColumn(setup_df, "RSI_14") THEN <<>>
    ELSE IF \E k \in 1..Len(setup_df["RSI_14"]) : setup_df["RSI_14"][k].kind = "text"
       THEN <<>>
    ELSE LET numbers == SelectSeq(setup_df["RSI_14"], LAMBDA c : c.kind = "num")
         IN [k \in 1..Len(numbers) |-> numbers[k].v]

\* RSI crossed up through the oversold boundary: the previous value is at
\* most 30 and the current one in (30, 45].
RsiCrossedUp ==
    /\ Len(ValidRsiValues) >= 2
    /\ ValidRsiValues[Len(ValidRsiValues) - 1] <= 30
    /\ ValidRsiValues[Len(ValidRsiValues)] > 30
    /\ ValidRsiValues[Len(ValidRsiValues)] <= 45

\* The label of the weekly trend as the RSI rebound and the crossovers read
\* a trend, without the SMA_200 comparison; "lateral" without weekly trend.
PlainWeeklyLabel ==
    IF setup_snapshot.weekly = <<>> THEN "lateral"
    ELSE trend_label(setup_snapshot.weekly[1], <<>>)

\* The result evaluate_setups returns for the RSI rebound: Trend Following
\* contributes exactly one result before it.
RsiReboundResult == setups.results[2]

\* C21: the RSI rebound setup is active iff RSI crossed up through the
\* oversold boundary and the weekly label is any other than "baixa forte",
\* a moderate downtrend included.
C21_RsiReboundUnlessStronglyBearish ==
    pc = "return" =>
        (RsiReboundResult.active <=>
            RsiCrossedUp /\ PlainWeeklyLabel # "baixa forte")

\* The pairs of columns evaluate_setups hands to _ema_cross.
EmaPairs == {<<"EMA_9", "EMA_21">>, <<"EMA_21", "EMA_72">>}

\* The number a column holds back rows before its last row, <<>> when the
\* table has no such column or row, or the cell is not a number.
NumberBack(column, back) ==
    IF ~HasSetupColumn(setup_df, column) THEN <<>>
    ELSE IF Len(setup_df[column]) <= back THEN <<>>
    ELSE IF setup_df[column][Len(setup_df[column]) - back].kind # "num" THEN <<>>
    ELSE <<setup_df[column][Len(setup_df[column]) - back].v>>

\* Both averages are known at the previous and at the latest bar.
PairKnown(pair) ==
    \A back \in {0, 1} : NumberBack(pair[1], back) # <<>> /\ NumberBack(pair[2], back) # <<>>

\* The short average crosses from below to above the long one between the
\* previous and the latest bar: not above it at the previous bar, above it at
\* the latest.
CrossesAbove(pair) ==
    /\ PairKnown(pair)
    /\ NumberBack(pair[1], 1)[1] <= NumberBack(pair[2], 1)[1]
    /\ NumberBack(pair[1], 0)[1] > NumberBack(pair[2], 0)[1]

\* The symmetric cross from above to below.
CrossesBelow(pair) ==
    /\ PairKnown(pair)
    /\ NumberBack(pair[1], 1)[1] >= NumberBack(pair[2], 1)[1]
    /\ NumberBack(pair[1], 0)[1] < NumberBack(pair[2], 0)[1]

\* The label of the daily trend without the SMA_200 comparison.
PlainDailyLabel == trend_label(setup_snapshot.trend, <<>>)

\* The results evaluate_setups returned under a name.
ResultsNamed(name) ==
    {setups.results[i] : i \in {j \in 1..Len(setups.results) : setups.results[j].name = name}}

ActiveResultNamed(name) == \E r \in ResultsNamed(name) : r.active

FailureName(k) == setups.results[ResultsBefore(k) + 1].name

\* C23: the inactive result of a predicate that raised is tagged with the
\* identity of that predicate: the results of two different predicates that
\* raised in one call carry different names.
C23_FailureNamesPredicate ==
    pc = "return" =>
        \A j, k \in 1..NumSetupFunctions :
            (j # k /\ Raised(OwnOutcome(j)) /\ Raised(OwnOutcome(k))) =>
                FailureName(j) # FailureName(k)

(***************************************************************************)
(* workflows/b3.py: persist_raw_history                                    *)
(***************************************************************************)
\* A frame is [columns, rows]; a row is [Date, Ticker, Close]. A Date cell is
\* a day number (1, 2, ...) or 0, a text that pd.to_datetime cannot parse;
\* a Ticker cell is a ticker or NaN.
NaT == 0
NaN == "nan"

\* pd.to_datetime(cell, errors="coerce")
to_datetime(cell) == IF cell >= 1 THEN cell ELSE NaT

\* df.dropna(subset=["Date", "Ticker"])
dropna_subset(rows) == SelectSeq(rows, LAMBDA r : r.Date # NaT /\ r.Ticker # NaN)

\* The positions of rows kept by drop_duplicates(subset=["Date"], keep=...).
IsLastOfDate(rows, i) == \A j \in (i + 1)..Len(rows) : rows[j].Date # rows[i].Date
IsFirstOfDate(rows, i) == \A j \in 1..(i - 1) : rows[j].Date # rows[i].Date

drop_duplicates_keep_first(rows) ==
    LET kept == SelectSeq([i \in 1..Len(rows) |-> i], LAMBDA i : IsFirstOfDate(rows, i))
    IN [k \in 1..Len(kept) |-> rows[kept[k]]]

\* combined.drop_duplicates(subset=["Date"], keep="last")
drop_duplicates(rows) ==
    LET kept == SelectSeq([i \in 1..Len(rows) |-> i], LAMBDA i : IsLastOfDate(rows, i))
    IN [k \in 1..Len(kept) |-> rows[kept[k]]]

\* combined.sort_values("Date")
sort_values(rows) == SortSeq(rows, LAMBDA a, b : a.Date < b.Date)

\* The file written for one group of df.groupby("Ticker"); existing is the
\* content of the ticker's file, empty when there is none.
combined_history(existing, group) ==
    LET combined == existing \o group
        dated == [i \in 1..Len(combined) |->
                     [combined[i] EXCEPT !.Date = to_datetime(@)]]
    IN sort_values(drop_duplicates(SelectSeq(dated, LAMBDA r : r.Date # NaT)))

required == {"Date", "Ticker"}

\* persist_raw_history(df, output_dir): whether it raised ValueError, and the
\* files of output_dir after the call.
persist_raw_history(df, output_dir) ==
    IF df.rows = <<>> THEN [raised |-> FALSE, output_dir |-> output_dir]
    ELSE IF required \ df.columns # {}
         THEN [raised |-> TRUE, output_dir |-> output_dir]
         ELSE LET coerced == [i \in 1..Len(df.rows) |->
                                 [df.rows[i] EXCEPT !.Date = to_datetime(@)]]
                  kept == dropna_subset(coerced)
                  groups == {kept[i].Ticker : i \in 1..Len(kept)}
                  group(t) == SelectSeq(kept, LAMBDA r : r.Ticker = t)
              IN [raised |-> FALSE,
                  output_dir |->
                      [t \in DOMAIN output_dir |->
                          IF t \in groups
                             THEN combined_history(output_dir[t], group(t))
                             ELSE output_dir[t]]]

(***************************************************************************)
(* Any sequence of persist_raw_history calls into one output directory     *)
(***************************************************************************)
\* Calls made into the directory, and rows of the frame of one call.
MaxCalls == 3
MaxBatchRows == 2
PersistDates == {1, 2}
PersistTickers == {"ABCD3", "WXYZ4"}
PersistCloses == {10, 42}
PersistColumns == {"Date", "Ticker", "Close"}

\* The rows of a frame: the rows of one ticker on every date, one row of a
\* second ticker, a row whose date cannot be parsed and a row without a
\* ticker.
PersistRows ==
    [Date : PersistDates, Ticker : {"ABCD3"}, Close : PersistCloses]
    \cup {[Date |-> 1, Ticker |-> "WXYZ4", Close |-> 10],
          [Date |-> 0, Ticker |-> "ABCD3", Close |-> 10],
          [Date |-> 1, Ticker |-> NaN, Close |-> 10]}

\* The frames: all columns, or one of the required columns missing.
PersistColumnSets == {PersistColumns, PersistColumns \ {"Date"}, PersistColumns \ {"Ticker"}}

NeverPersisted == [Close |-> 0, calls |-> 0]

InitPersist ==
    /\ pc = "call"
    /\ parquet = [t \in PersistTickers |-> <<>>]
    /\ persisted = [t \in PersistTickers |-> [d \in PersistDates |-> NeverPersisted]]
    /\ persist_calls = 0
    /\ persist_raised = FALSE
    /\ MergeIdle /\ LevelsIdle /\ FibIdle
    /\ DivIdle /\ BreakoutIdle /\ TrendIdle /\ SetupsIdle
    /\ ConfigIdle /\ AuditIdle /\ SnapshotIdle /\ LaterIdle

\* The rows of a frame that persist a close for ticker t on date d.
RowsFor(df, t, d) == {i \in 1..Len(df.rows) : df.rows[i].Ticker = t /\ df.rows[i].Date = d}

PersistRawHistory ==
    /\ persist_calls < MaxCalls
    /\ \E n \in 0..MaxBatchRows :
          \E rows \in [1..n -> PersistRows], columns \in PersistColumnSets :
              LET df == [columns |-> columns, rows |-> rows]
                  result == persist_raw_history(df, parquet)
              IN /\ parquet' = result.output_dir
                 /\ persist_raised' = result.raised
                 /\ persisted' =
                       [t \in PersistTickers |-> [d \in PersistDates |->
                           IF required \subseteq columns /\ RowsFor(df, t, d) # {}
                              THEN [Close |-> rows[SetMax(RowsFor(df, t, d))].Close,
                                    calls |-> persisted[t][d].calls + 1]
                              ELSE persisted[t][d]]]
    /\ persist_calls' = persist_calls + 1
    /\ pc' = "return"
    /\ UNCHANGED <<mergeVars, levelVars, fibVars, divVars, breakoutVars, trendVars,
                   setupVars, configVars, auditVars, snapshotVars, laterVars>>

NextPersist == PersistRawHistory

SpecPersist == InitPersist /\ [][NextPersist]_vars

StoredDates(rows) == {rows[i].Date : i \in 1..Len(rows)}

\* Every ticker's file has one row per date ever persisted for the ticker, in
\* ascending date order, holding the close of the most recent call.
OneRowPerPersistedDate ==
    \A t \in PersistTickers :
        /\ StoredDates(parquet[t]) = {d \in PersistDates : persisted[t][d].calls > 0}
        /\ \A i \in 1..Len(parquet[t]) :
              /\ parquet[t][i].Ticker = t
              /\ parquet[t][i].Close = persisted[t][parquet[t][i].Date].Close
        /\ \A i, j \in 1..Len(parquet[t]) :
              i < j => parquet[t][i].Date < parquet[t][j].Date

\* A call removes no stored date.
StoredDatesKept ==
    \A t \in PersistTickers : StoredDates(parquet[t]) \subseteq StoredDates(parquet'[t])

SectionKinds == {"absent", "null", "mapping"}
KeyKinds == {"absent", "null", "list"}

AttributeErrorText == "AttributeError: 'NoneType' object has no attribute 'get'"
FileNotFoundErrorText == "FileNotFoundError"
NoTickersErrorText == "ValueError"

\* data.get(name, {}).get("tickers"): an Optional list, or AttributeError
\* when data[name] is None.
get_tickers(section) ==
    IF section.kind = "null" THEN Raise(AttributeErrorText)
    ELSE IF section.kind = "mapping" /\ section.key = "list"
         THEN Return(<<section.list>>)
         ELSE Return(<<>>)

\* not tickers: None or an empty list.
Falsy(tickers) == tickers = <<>> \/ tickers[1] = <<>>

\* str.upper on the tickers of the explored files.
upper(ticker) ==
    CASE ticker = "petr4" -> "PETR4"
      [] ticker = "vale3" -> "VALE3"
      [] OTHER -> ticker

\* list(dict.fromkeys(keys)): a key enters the dict at its first occurrence.
RECURSIVE fromkeys(_, _)
fromkeys(dict, keys) ==
    IF keys = <<>> THEN dict
    ELSE fromkeys(IF Contains(dict, Head(keys)) THEN dict ELSE Append(dict, Head(keys)),
                  Tail(keys))

\* load_tickers_from_config(config_path)
load_tickers_from_config(file) ==
    IF ~file.exists THEN Raise(FileNotFoundErrorText)
    ELSE LET b3 == IF file.empty THEN Return(<<>>) ELSE get_tickers(file.b3)
             carteira == IF file.empty THEN Return(<<>>) ELSE get_tickers(file.carteira)
         IN IF Raised(b3) THEN b3
            ELSE IF ~Falsy(b3.value) THEN
                    Return(fromkeys(<<>>, [i \in 1..Len(b3.value[1]) |->
                                              upper(b3.value[1][i])]))
            ELSE IF Raised(carteira) THEN carteira
            ELSE IF ~Falsy(carteira.value) THEN
                    Return(fromkeys(<<>>, [i \in 1..Len(carteira.value[1]) |->
                                              upper(carteira.value[1][i])]))
            ELSE Raise(NoTickersErrorText)

(***************************************************************************)
(* load_tickers_from_config on a family of configuration files             *)
(***************************************************************************)
\* Entries of a tickers list.
MaxTickers == 3
ConfigTickers == {"petr4", "PETR4", "VALE3"}

TickerLists == UNION {[1..n -> ConfigTickers] : n \in 0..MaxTickers}

AbsentSection == [kind |-> "absent", key |-> "absent", list |-> <<>>]

Sections ==
    {AbsentSection, [kind |-> "null", key |-> "absent", list |-> <<>>],
     [kind |-> "mapping", key |-> "absent", list |-> <<>>],
     [kind |-> "mapping", key |-> "null", list |-> <<>>]}
    \cup {[kind |-> "mapping", key |-> "list", list |-> l] : l \in TickerLists}

MissingFile == [exists |-> FALSE, empty |-> TRUE, b3 |-> AbsentSection,
                carteira |-> AbsentSection]
EmptyFile == [exists |-> TRUE, empty |-> TRUE, b3 |-> AbsentSection,
              carteira |-> AbsentSection]

InitConfig ==
    /\ pc = "call"
    /\ \/ config \in {MissingFile, EmptyFile}
       \/ \E b3 \in Sections, carteira \in Sections :
             config = [exists |-> TRUE, empty |-> FALSE, b3 |-> b3, carteira |-> carteira]
    /\ loaded = None
    /\ MergeIdle /\ LevelsIdle /\ FibIdle
    /\ DivIdle /\ BreakoutIdle /\ TrendIdle /\ SetupsIdle
    /\ PersistIdle /\ AuditIdle /\ SnapshotIdle /\ LaterIdle

LoadTickersFromConfig ==
    /\ pc = "call"
    /\ loaded' = load_tickers_from_config(config)
    /\ pc' = "return"
    /\ UNCHANGED <<config, mergeVars, levelVars, fibVars, divVars, breakoutVars,
                   trendVars, setupVars, persistVars, auditVars,
                   snapshotVars, laterVars>>

NextConfig == LoadTickersFromConfig

SpecConfig == InitConfig /\ [][NextConfig]_vars

\* The tickers a section holds: none when the section or its tickers key is
\* absent or empty.
TickersOf(file, section) ==
    IF ~file.empty /\ section.kind = "mapping" /\ section.key = "list"
       THEN section.list
       ELSE <<>>

\* A list upper-cased, each ticker kept at its first occurrence.
UpperCasedFirstOccurrences(list) ==
    LET up == [i \in 1..Len(list) |-> upper(list[i])]
        firsts == SelectSeq([i \in 1..Len(up) |-> i],
                            LAMBDA i : \A j \in 1..(i - 1) : up[j] # up[i])
    IN [k \in 1..Len(firsts) |-> up[firsts[k]]]

\* C14: load_tickers_from_config returns the tickers of b3.tickers upper-cased
\* and deduplicated in first-occurrence order; when b3.tickers is absent or
\* empty, the legacy carteira.tickers by the same rule; when neither holds a
\* ticker it raises ValueError, and when the file does not exist
\* FileNotFoundError.
C14_TickersFromConfig ==
    pc = "return" =>
        IF ~config.exists THEN loaded = Raise(FileNotFoundErrorText)
        ELSE IF TickersOf(config, config.b3) # <<>>
             THEN loaded = Return(UpperCasedFirstOccurrences(TickersOf(config, config.b3)))
        ELSE IF TickersOf(config, config.carteira) # <<>>
             THEN loaded =
                     Return(UpperCasedFirstOccurrences(TickersOf(config, config.carteira)))
        ELSE loaded = Raise(NoTickersErrorText)

\* C14 holds of the files in which no section header is left without
\* children.
C14_TickersFromConfigNoNullSection ==
    (config.b3.kind # "null" /\ config.carteira.kind # "null") => C14_TickersFromConfig
(***************************************************************************)
(* workflows/audit.py                                                      *)
(***************************************************************************)
\* A file of data_dir is [exists, readable, dates]: dates is its Date column,
\* each cell a day number or 0, a value that pd.to_datetime cannot parse.

\* _collect_dates(path): the parsed dates in ascending order, None (<<>>)
\* when the file has no row or no parseable date.
collect_dates(file) ==
    LET parsed == [i \in 1..Len(file.dates) |-> to_datetime(file.dates[i])]
        valid == SelectSeq(parsed, LAMBDA d : d # NaT)
    IN SortSeq(valid, LAMBDA a, b : a < b)

\* _evaluate_series(dates, max_gap_days) for a non-empty series.
evaluate_series(dates, today) ==
    LET gaps == [i \in 1..(Len(dates) - 1) |-> dates[i + 1] - dates[i]]
    IN [max_gap |-> IF Len(dates) <= 1 THEN 0 ELSE SeqMax(gaps),
        last_gap |-> today - dates[Len(dates)],
        last_date |-> dates[Len(dates)]]

EmptySummary == [missing |-> <<>>, gaps |-> <<>>, failures |-> <<>>]

\* The gap test with >= in place of >.
has_gap_issue_at_limit(e, max_gap_days) ==
    e.max_gap >= max_gap_days \/ e.last_gap >= max_gap_days

\* The test of _audit_directory that reports a GapIssue.
has_gap_issue(e, max_gap_days) ==
    e.max_gap > max_gap_days \/ e.last_gap > max_gap_days

\* One pass of the loop of _audit_directory.
audit_ticker(acc, ticker, file, max_gap_days, today) ==
    IF ~file.exists THEN [acc EXCEPT !.missing = Append(@, ticker)]
    ELSE IF ~file.readable
         THEN [acc EXCEPT !.failures = Append(@, [ticker |-> ticker, text |-> "erro ao ler"])]
    ELSE IF collect_dates(file) = <<>>
         THEN [acc EXCEPT !.failures =
                              Append(@, [ticker |-> ticker, text |-> "arquivo vazio"])]
    ELSE LET e == evaluate_series(collect_dates(file), today)
         IN IF has_gap_issue(e, max_gap_days)
               THEN [acc EXCEPT !.gaps =
                                    Append(@, [ticker |-> ticker, max_gap |-> e.max_gap,
                                               last_gap |-> e.last_gap,
                                               last_date |-> e.last_date])]
               ELSE acc

RECURSIVE audit_from(_, _, _)
audit_from(acc, args, k) ==
    IF k > Len(args.expected) THEN acc
    ELSE audit_from(audit_ticker(acc, args.expected[k], args.data_dir[args.expected[k]],
                                 args.max_gap_days, args.today),
                    args, k + 1)

\* _audit_directory(expected, data_dir, suffix, max_gap_days)
audit_directory(args) == audit_from(EmptySummary, args, 1)

(***************************************************************************)
(* _audit_directory on a family of directories                             *)
(***************************************************************************)
\* Tickers of the expected list, and rows of a file.
MaxExpected == 2
MaxFileRows == 2
AuditTickers == {"AAA", "BBB"}
AuditDates == {0, 1, 2, 4}
AuditTodays == {4, 6}
AuditMaxGaps == {1, 2}

AuditFiles ==
    {[exists |-> FALSE, readable |-> FALSE, dates |-> <<>>],
     [exists |-> TRUE, readable |-> FALSE, dates |-> <<>>]}
    \cup {[exists |-> TRUE, readable |-> TRUE, dates |-> d] :
             d \in UNION {[1..n -> AuditDates] : n \in 0..MaxFileRows}}

InitAudit ==
    /\ pc = "call"
    /\ \E n \in 0..MaxExpected :
          \E expected \in [1..n -> AuditTickers], dir \in [AuditTickers -> AuditFiles],
             today \in AuditTodays, max_gap_days \in AuditMaxGaps :
              audit_args = [expected |-> expected, data_dir |-> dir, today |-> today,
                            max_gap_days |-> max_gap_days]
    /\ summary = None
    /\ MergeIdle /\ LevelsIdle /\ FibIdle
    /\ DivIdle /\ BreakoutIdle /\ TrendIdle /\ SetupsIdle
    /\ PersistIdle /\ ConfigIdle /\ SnapshotIdle /\ LaterIdle

AuditDirectory ==
    /\ pc = "call"
    /\ summary' = audit_directory(audit_args)
    /\ pc' = "return"
    /\ UNCHANGED <<audit_args, mergeVars, levelVars, fibVars, divVars, breakoutVars,
                   trendVars, setupVars, persistVars, configVars, snapshotVars,
                   laterVars>>

NextAudit == AuditDirectory

SpecAudit == InitAudit /\ [][NextAudit]_vars

\* The parseable dates of a file, as a set.
DatesIn(file) == {file.dates[i] : i \in 1..Len(file.dates)} \ {NaT}

\* The largest distance in days between two neighbouring dates of a set.
LargestGap(D) ==
    LET neighbours == {p \in D \X D :
                          p[1] < p[2] /\ ~\E c \in D : p[1] < c /\ c < p[2]}
    IN IF neighbours = {} THEN 0 ELSE SetMax({p[2] - p[1] : p \in neighbours})

\* The gap condition of the claim for a file with at least one date.
ExceedsMaxGap(file, args) ==
    \/ LargestGap(DatesIn(file)) > args.max_gap_days
    \/ args.today - SetMax(DatesIn(file)) > args.max_gap_days

TickersOfEntries(entries) == [i \in 1..Len(entries) |-> entries[i].ticker]

\* The expected tickers that satisfy a condition, in the order of the list.
ExpectedWhere(args, Cond(_)) == SelectSeq(args.expected, Cond)

\* C15: a ticker is in missing iff its file does not exist; it has a GapIssue
\* iff its file is readable and non-empty and the largest gap between
\* consecutive sorted dates, or the gap from the last date to today, exceeds
\* max_gap_days; missing, gaps and failures follow the order of the expected
\* list and no ticker is in more than one of them.
C15_AuditClassifiesTickers ==
    pc = "return" =>
        LET file(t) == audit_args.data_dir[t]
            IsMissing(t) == ~file(t).exists
            HasGap(t) ==
                /\ file(t).exists /\ file(t).readable
                /\ file(t).dates # <<>>
                /\ DatesIn(file(t)) # {}
                /\ ExceedsMaxGap(file(t), audit_args)
            InList(list, t) == \E i \in 1..Len(list) : list[i] = t
            gap_tickers == TickersOfEntries(summary.gaps)
            failure_tickers == TickersOfEntries(summary.failures)
        IN /\ summary.missing = ExpectedWhere(audit_args, IsMissing)
           /\ gap_tickers = ExpectedWhere(audit_args, HasGap)
           /\ \A i \in 1..Len(failure_tickers) :
                 InList(audit_args.expected, failure_tickers[i])
           /\ \A i, j \in 1..Len(failure_tickers) :
                 (i < j /\ failure_tickers[i] # failure_tickers[j]) =>
                     \E a, b \in 1..Len(audit_args.expected) :
                         /\ a < b
                         /\ audit_args.expected[a] = failure_tickers[i]
                         /\ audit_args.expected[b] = failure_tickers[j]
           /\ \A t \in AuditTickers :
                 Cardinality({k \in {"missing", "gaps", "failures"} :
                                 InList(CASE k = "missing" -> summary.missing
                                          [] k = "gaps" -> gap_tickers
                                          [] k = "failures" -> failure_tickers, t)}) <= 1

\* C15 witness: an audit that returned one missing ticker and one GapIssue
\* raised by the gap between two stored dates alone.
C15_Witness ==
    /\ pc = "return"
    /\ Len(summary.missing) = 1
    /\ Len(summary.gaps) = 1
    /\ summary.gaps[1].max_gap > audit_args.max_gap_days
    /\ summary.gaps[1].last_gap <= audit_args.max_gap_days
(***************************************************************************)
(* reporting/insights.py: build_market_snapshot, and workflows/snapshot.py *)
(***************************************************************************)
\* A table is [columns, date_dtype, rows]: the names of its columns, the
\* dtype of its Date column ("object" for texts, "datetime64" for
\* timestamps) and its rows. A Date cell is a day number, or 0: a text that
\* is not a date under "object", NaT under "datetime64".
REQUIRED_COLUMNS == {"Date", "Open", "High", "Low", "Close", "Volume"}
MissingColumnsText == "DataFrame sem as colunas obrigatórias"

\* df["Date"] = pd.to_datetime(df["Date"], errors="coerce")
astype_datetime(df) ==
    LET converted == [i \in 1..Len(df.rows) |->
                         [df.rows[i] EXCEPT !.Date = to_datetime(@)]]
    IN [df EXCEPT !.date_dtype = "datetime64", !.rows = converted]

\* df.dropna(subset=["Date"])
dropna_date(rows) == SelectSeq(rows, LAMBDA r : r.Date # NaT)

\* _validate_input(df): works on a copy of df.
validate_input(df) ==
    IF REQUIRED_COLUMNS \ df.columns # {} THEN Raise(MissingColumnsText)
    ELSE LET data == IF df.date_dtype = "datetime64" THEN df ELSE astype_datetime(df)
         IN Return([data EXCEPT !.rows = sort_values(dropna_date(@))])

RECURSIVE Pow(_, _)
Pow(b, e) == IF e = 0 THEN 1 ELSE b * Pow(b, e - 1)

\* indicators.rsi(series, 14) on a series shorter than the window: every
\* rolling mean is missing and fillna(50.0) fills the column.
rsi(series, window) == [t \in 1..Len(series) |-> 50]

\* indicators.on_balance_volume(close, volume)
on_balance_volume(close, volume) ==
    LET signed == [t \in 1..Len(close) |->
                      IF t > 1 /\ close[t] - close[t - 1] > 0 THEN volume[t]
                      ELSE 0 - volume[t]]
    IN [t \in 1..Len(close) |-> SumRange(signed, 1, t)]

\* The Histogram column of indicators.macd(series) with spans 12, 26 and 9,
\* in units of 1 / 1755^(n - 1) for a series of n values: the averages of
\* ewm(span, adjust=False) are y[t] = ((span - 1) y[t-1] + 2 x[t]) / (span + 1).
macd_histogram(series) ==
    LET n == Len(series)
        ema_short[t \in 1..n] ==
            IF t = 1 THEN series[1] ELSE 11 * ema_short[t - 1] + 2 * series[t] * Pow(13, t - 1)
        ema_long[t \in 1..n] ==
            IF t = 1 THEN series[1] ELSE 25 * ema_long[t - 1] + 2 * series[t] * Pow(27, t - 1)
        macd_line[t \in 1..n] == ema_short[t] * Pow(27, t - 1) - ema_long[t] * Pow(13, t - 1)
        signal_line[t \in 1..n] ==
            IF t = 1 THEN macd_line[1]
            ELSE 4 * 351 * signal_line[t - 1] + macd_line[t] * Pow(5, t - 2)
    IN [t \in 1..n |->
           (macd_line[t] * Pow(5, t - 1) - signal_line[t]) * Pow(1755, n - t)]

\* close.resample("W").last() with the empty weeks dropped.
resample_last(dates, series) ==
    LET weeks == SortedWeeks({WeekOf(dates[i]) : i \in 1..Len(dates)})
    IN [k \in 1..Len(weeks) |->
           series[SetMax({j \in 1..Len(dates) : WeekOf(dates[j]) = weeks[k]})]]

\* Default windows of trend_by_timeframe and trend_strength.
short_window == 9
medium_window == 21
long_window == 72

\* trend_by_timeframe(close): a timeframe with fewer values than the longest
\* window is left out.
trend_by_timeframe(dates, close) ==
    LET series(name) == IF name = "daily" THEN close ELSE resample_last(dates, close)
        names == {name \in {"daily", "weekly"} :
                     ~(Len(series(name)) < Max(short_window, Max(medium_window, long_window)))}
    IN [name \in names |->
           trend_strength(Series(series(name), 0), short_window, medium_window, long_window)]

LCM(a, b) == (a * b) \div GCD(a, b)

\* The least unit 1 / d in which every level of a tuple is a whole number.
CommonDenominator(levels) ==
    LET upto[k \in 0..Len(levels)] ==
            IF k = 0 THEN 1 ELSE LCM(upto[k - 1], levels[k][2])
    IN upto[Len(levels)]

InUnits(levels, d) == [k \in 1..Len(levels) |-> levels[k][1] * (d \div levels[k][2])]

\* Default tolerance_pct = 0.5 of breakout_signals, in tenths of a percent.
breakout_tolerance_pct == 5
\* Default order and min_distance of the divergence detectors.
divergence_order == 5
divergence_min_distance == 5

EmptyDict == {}

\* The RSI_14, OBV and Histogram columns that add_indicators puts in the
\* indicator table of build_market_snapshot.
snapshot_indicators(close, volume) ==
    [RSI_14 |-> rsi(close, 14),
     OBV |-> on_balance_volume(close, volume),
     Histogram |-> macd_histogram(close)]

\* detect_rsi_divergences, detect_obv_divergences and
\* detect_macd_histogram_divergences of build_market_snapshot, by the
\* indicator name the detector puts in its signals.
snapshot_divergences(close, indicator_values, name) ==
    detect_divergences([i \in 1..Len(close) |-> [t |-> i, v |-> close[i], nan |-> FALSE]],
                       [i \in 1..Len(close) |-> [t |-> i, v |-> indicator_values[i], nan |-> FALSE]],
                       divergence_order, divergence_min_distance, name)

\* breakout_signals(price, supports, resistances) of build_market_snapshot,
\* prices and levels in units of 1 / unit.
snapshot_breakout(dates, close, levels, unit) ==
    breakout_signals([i \in 1..Len(close) |-> [v |-> close[i] * unit, t |-> dates[i]]],
                     InUnits(levels.supports, unit), InUnits(levels.resistances, unit),
                     breakout_tolerance_pct)

\* trend_map.get("daily") or trend_strength(data["Close"])
daily_or_trend_strength(trend_map, close) ==
    IF "daily" \in DOMAIN trend_map THEN trend_map["daily"]
    ELSE trend_strength(Series(close, 0), short_window, medium_window, long_window)

\* divergences = detect_rsi_divergences(...), then += detect_obv_divergences(...)
\* and += detect_macd_histogram_divergences(...).
merged_divergence_list(found) ==
    found[1].signals \o found[2].signals \o found[3].signals

\* The MarketSnapshot that build_market_snapshot constructs from the results
\* of its sub-computations, or the error one of them raised.
MarketSnapshot(dates, close, indicators, levels, fib, trend_map, daily_trend, broken, found) ==
    LET unit == broken.unit
        signals == broken.signals
        rsi_found == found[1]
        obv_found == found[2]
        histogram_found == found[3]
    IN
    IF signals.raised THEN Raise(IndexErrorText)
    ELSE IF rsi_found.raised \/ obv_found.raised \/ histogram_found.raised
       THEN Raise(IndexErrorText)
    ELSE Return(<<[levels |-> levels,
                   fibonacci |-> fib,
                   trend |-> daily_trend,
                   trend_multi |-> trend_map,
                   breakout |-> [unit |-> unit, map |-> signals.map],
                   divergences |-> merged_divergence_list(found),
                   indicators |-> indicators,
                   latest_price |-> close[Len(close)],
                   latest_date |-> dates[Len(dates)],
                   macro_context |-> EmptyDict]>>)

\* The body of build_market_snapshot once the levels and the trend map are
\* known.
snapshot_of_levels(dates, close, indicators, levels, fib, trend_map, unit) ==
    MarketSnapshot(dates, close, indicators, levels, fib, trend_map,
                   daily_or_trend_strength(trend_map, close),
                   [unit |-> unit, signals |-> snapshot_breakout(dates, close, levels, unit)],
                   <<snapshot_divergences(close, indicators.RSI_14, "RSI"),
                     snapshot_divergences(close, indicators.OBV, "OBV"),
                     snapshot_divergences(close, indicators.Histogram, "MACD")>>)

\* The body of build_market_snapshot on the validated, non-empty table.
snapshot_of_frame(level_frame, dates, close, volume, levels) ==
    snapshot_of_levels(dates, close, snapshot_indicators(close, volume), levels,
                       compute_retracements(level_frame, DefaultLookback),
                       trend_by_timeframe(dates, close),
                       CommonDenominator(levels.supports \o levels.resistances))

\* data[["Date", "Close", "High", "Low"]]
level_columns(data) ==
    [i \in 1..Len(data) |->
        [Date |-> data[i].Date, Close |-> data[i].Close,
         High |-> data[i].High, Low |-> data[i].Low]]

snapshot_of_data(data, level_frame) ==
    \* compute_special_levels reads .iloc[-1] of an empty weekly series.
    IF Len(data) = 0 THEN Raise(IndexErrorText)
    ELSE snapshot_of_frame(level_frame, Column(data, "Date"), Column(data, "Close"),
                           Column(data, "Volume"), consolidate_levels(level_frame))

snapshot_of_validated(validated) ==
    IF Raised(validated) THEN validated
    ELSE snapshot_of_data(validated.value.rows, level_columns(validated.value.rows))

\* build_market_snapshot(df) with the default arguments. The snapshot keeps
\* the RSI_14, OBV and Histogram columns of the indicator table; breakout
\* prices and levels are in units of 1 / breakout.unit.
build_market_snapshot(df) == snapshot_of_validated(validate_input(df))

\* _prepare_dataframe(df): the table the caller holds afterwards, and the
\* table returned.
prepare_dataframe(df) ==
    IF "Date" \in df.columns
       THEN [df |-> astype_datetime(df),
             prepared |-> [astype_datetime(df) EXCEPT
                              !.rows = sort_values(dropna_date(@))]]
       ELSE [df |-> df, prepared |-> df]

\* A macro_context argument is None ([given |-> FALSE]) or a dictionary, the
\* set of its (name, correlation) items; None and {} are false.
NonEmptyDict(macro_context) == macro_context.given /\ macro_context.items # {}

\* snapshot_from_dataframe without the macro_context assignment.
snapshot_from_dataframe_without_macro(df, macro_context) ==
    LET prepared == prepare_dataframe(df)
        made == build_market_snapshot(prepared.prepared)
    IN [df |-> prepared.df, built |-> made, returned |-> made]

\* snapshot_from_dataframe(df, macro_context=...): the caller's table
\* afterwards, what build_market_snapshot returned, and what the call returned.
snapshot_from_dataframe(df, macro_context) ==
    LET prepared == prepare_dataframe(df)
        made == build_market_snapshot(prepared.prepared)
    IN [df |-> prepared.df,
        built |-> made,
        returned |-> IF Raised(made) \/ ~NonEmptyDict(macro_context) THEN made
                     ELSE Return(<<[made.value[1] EXCEPT
                                       !.macro_context = macro_context.items]>>)]

\* What summarise_snapshot(snapshot) reports, read from the snapshot: the
\* items of its text in place of the text.
summarise_snapshot(snapshot) ==
    [price |-> snapshot.latest_price,
     date |-> snapshot.latest_date,
     trend |-> <<snapshot.trend.direction, snapshot.trend.crossover>>,
     breakouts |-> {kind \in DOMAIN snapshot.breakout.map :
                       snapshot.breakout.map[kind] # <<>>},
     supports |-> snapshot.levels.support_details,
     resistances |-> snapshot.levels.resistance_details,
     fibonacci |-> snapshot.fibonacci.levels,
     divergences |-> snapshot.divergences,
     macro |-> snapshot.macro_context]

\* The fields of a MarketSnapshot that evaluate_setups reads.
SetupView(snapshot) ==
    [latest_price |-> snapshot.latest_price,
     trend |-> snapshot.trend,
     weekly |-> IF "weekly" \in DOMAIN snapshot.trend_multi
                   THEN <<snapshot.trend_multi["weekly"]>> ELSE <<>>]

(***************************************************************************)
(* The entry points on a family of tables                                  *)
(***************************************************************************)
MaxSnapshotBars == 2
SnapshotDates == {0, 1, 8}
SnapshotCloses == {400, 401}
SnapshotColumnSets ==
    {REQUIRED_COLUMNS, REQUIRED_COLUMNS \ {"Volume"}, REQUIRED_COLUMNS \ {"Date"},
     REQUIRED_COLUMNS \ {"High", "Low"}}
MacroContexts ==
    {[given |-> FALSE, items |-> {}], [given |-> TRUE, items |-> {}],
     [given |-> TRUE, items |-> {<<"USD_BRL_SPOT", 5>>}]}
\* The tables evaluate_setups is handed with the snapshot.
SetupTables ==
    {IndicatorTable(rows, [c \in SetupColumns |-> "rising"]) : rows \in {0, 2}}

SnapshotRow(date, close) ==
    [Date |-> date, Open |-> close, High |-> close, Low |-> close, Close |-> close,
     Volume |-> 1]

InitSnapshot ==
    /\ pc = "call"
    /\ \E n \in 0..MaxSnapshotBars :
          \E dates \in [1..n -> SnapshotDates], closes \in [1..n -> SnapshotCloses],
             columns \in SnapshotColumnSets, dtype \in {"object", "datetime64"} :
              df_arg = [columns |-> columns, date_dtype |-> dtype,
                        rows |-> [i \in 1..n |-> SnapshotRow(dates[i], closes[i])]]
    /\ caller_df = df_arg
    /\ macro_arg \in MacroContexts
    /\ built = None
    /\ market_snapshot = None
    /\ consumed = <<>>
    /\ MergeIdle /\ LevelsIdle /\ FibIdle
    /\ DivIdle /\ BreakoutIdle /\ TrendIdle /\ SetupsIdle
    /\ PersistIdle /\ ConfigIdle /\ AuditIdle /\ LaterIdle

\* The variables of the other components.
besidesSnapshot == <<mergeVars, levelVars, fibVars, divVars, breakoutVars, trendVars,
                     setupVars, persistVars, configVars, auditVars, laterVars>>

BuildMarketSnapshot ==
    /\ pc = "call"
    /\ macro_arg = [given |-> FALSE, items |-> {}]
    /\ built' = build_market_snapshot(caller_df)
    /\ market_snapshot' = [entry |-> "build_market_snapshot", outcome |-> built']
    /\ pc' = "return"
    /\ UNCHANGED <<df_arg, caller_df, macro_arg, consumed, besidesSnapshot>>

SnapshotFromDataframe ==
    /\ pc = "call"
    /\ LET call == snapshot_from_dataframe(caller_df, macro_arg)
       IN /\ caller_df' = call.df
          /\ built' = call.built
          /\ market_snapshot' = [entry |-> "snapshot_from_dataframe",
                                 outcome |-> call.returned]
    /\ pc' = "return"
    /\ UNCHANGED <<df_arg, macro_arg, consumed, besidesSnapshot>>

Handed(consumer) == \E k \in 1..Len(consumed) : consumed[k].consumer = consumer

SummariseSnapshot ==
    /\ pc = "return"
    /\ ~Raised(market_snapshot.outcome)
    /\ ~Handed("summarise_snapshot")
    /\ consumed' = Append(consumed,
                          [consumer |-> "summarise_snapshot",
                           output |-> <<summarise_snapshot(market_snapshot.outcome.value[1])>>])
    /\ UNCHANGED <<pc, df_arg, caller_df, macro_arg, built, market_snapshot,
                   besidesSnapshot>>

EvaluateSetupsOfSnapshot ==
    /\ pc = "return"
    /\ ~Raised(market_snapshot.outcome)
    /\ ~Handed("evaluate_setups")
    /\ \E table \in SetupTables :
          consumed' = Append(consumed,
                             [consumer |-> "evaluate_setups",
                              output |-> evaluate_setups(
                                             SetupView(market_snapshot.outcome.value[1]),
                                             table).results])
    /\ UNCHANGED <<pc, df_arg, caller_df, macro_arg, built, market_snapshot,
                   besidesSnapshot>>

NextSnapshot ==
    \/ BuildMarketSnapshot
    \/ SnapshotFromDataframe
    \/ SummariseSnapshot
    \/ EvaluateSetupsOfSnapshot

SpecSnapshot == InitSnapshot /\ [][NextSnapshot]_vars
\* A table whose Date column holds a text that is not a date.
UnparseableDates(df) ==
    /\ "Date" \in df.columns
    /\ df.date_dtype = "object"
    /\ \E i \in 1..Len(df.rows) : df.rows[i].Date = 0

\* A table that passes validation with every row kept, at least one.
ValidatedInput(df) ==
    /\ REQUIRED_COLUMNS \subseteq df.columns
    /\ Len(df.rows) >= 1
    /\ \A i \in 1..Len(df.rows) : df.rows[i].Date # 0

\* C16: when a required column is missing or a date cannot be parsed, the
\* entry point raises the descriptive validation error, before a detector
\* has run; no row with an unparseable date is dropped silently.
C16_InvalidInputFailsFast ==
    (pc = "return"
        /\ (REQUIRED_COLUMNS \ df_arg.columns # {} \/ UnparseableDates(df_arg))) =>
        /\ Raised(market_snapshot.outcome)
        /\ market_snapshot.outcome.exc # <<IndexErrorText>>

\* C17: for every validated input of at least one bar, every sub-computation
\* returns and build_market_snapshot completes.
C17_ShortSeriesCompletes ==
    (pc = "return" /\ ValidatedInput(df_arg)) => ~Raised(market_snapshot.outcome)

\* C18 as stated: the snapshot an entry point returns is the one
\* build_market_snapshot returned, no field modified.
C18_SnapshotAsBuilt ==
    pc = "return" => market_snapshot.outcome = built

\* The snapshot returned has every field as built, except that
\* snapshot_from_dataframe has put a non-empty macro_context argument in
\* the macro_context field.
AsBuiltButMacroContext ==
    (pc = "return" /\ ~Raised(market_snapshot.outcome)) =>
        /\ ~Raised(built)
        /\ \A field \in DOMAIN built.value[1] \ {"macro_context"} :
              market_snapshot.outcome.value[1][field] = built.value[1][field]
        /\ market_snapshot.outcome.value[1].macro_context =
              IF market_snapshot.entry = "snapshot_from_dataframe" /\ NonEmptyDict(macro_arg)
                 THEN macro_arg.items ELSE EmptyDict

\* Once the entry point has returned, no step changes the snapshot.
ReturnedSnapshotKept == pc = "return" => market_snapshot' = market_snapshot

\* C18 amended: a returned snapshot differs from the one
\* build_market_snapshot built in macro_context only, set by
\* snapshot_from_dataframe before it returns; summarise_snapshot and
\* evaluate_setups modify no field of it.
C18_SnapshotFixedOnceReturned == []AsBuiltButMacroContext /\ [][ReturnedSnapshotKept]_vars

\* C18 witness: a snapshot that carries the macro context it was given has
\* been handed to summarise_snapshot and to evaluate_setups.
C18_Witness ==
    /\ pc = "return"
    /\ market_snapshot.entry = "snapshot_from_dataframe"
    /\ ~Raised(market_snapshot.outcome)
    /\ market_snapshot.outcome.value[1].macro_context # EmptyDict
    /\ Handed("summarise_snapshot")
    /\ Handed("evaluate_setups")

\* C19: after the entry point returns, the caller's table has the values,
\* types and row order it was passed with.
C19_CallerTableUnchanged ==
    pc = "return" => caller_df = df_arg

(***************************************************************************)
(* reporting/insights.py: the divergence step of build_market_snapshot on  *)
(* series long enough for the detectors' default order, the indicator      *)
(* columns taken as the indicator library left them                        *)
(***************************************************************************)
\* Bars of a series.
MergedBars == 8
\* The bars at which the close patterns have their pivots.
PivotBars == {1, 2, MergedBars - 1, MergedBars}
IndicatorLevels == {1, 2}

\* A high at the first bar, a low at the second, a rise to a higher high at
\* the bar before the last and a lower low at the last bar.
DeclineLast == [k \in 1..MergedBars |->
                   IF k = 1 THEN MergedBars - 2 ELSE IF k = MergedBars THEN 1 ELSE k]
\* The same upside down, and a steady rise.
RallyLast == [k \in 1..MergedBars |-> MergedBars + 1 - DeclineLast[k]]
SteadyRise == [k \in 1..MergedBars |-> k]
ClosePatterns == {DeclineLast, RallyLast, SteadyRise}

\* An indicator column that is flat but at the pivot bars.
IndicatorColumn(at_pivots) ==
    [k \in 1..MergedBars |-> IF k \in PivotBars THEN at_pivots[k] ELSE 1]

\* Lines 179-183 of build_market_snapshot.
divergence_step(close, columns) ==
    LET found == <<snapshot_divergences(close, columns.RSI_14, "RSI"),
                   snapshot_divergences(close, columns.OBV, "OBV"),
                   snapshot_divergences(close, columns.Histogram, "MACD")>>
    IN IF found[1].raised \/ found[2].raised \/ found[3].raised
          THEN [raised |-> TRUE, signals |-> <<>>]
          ELSE [raised |-> FALSE, signals |-> merged_divergence_list(found)]

InitMerged ==
    /\ pc = "call"
    /\ merged_close \in ClosePatterns
    /\ \E rsi14, obv, histogram \in [PivotBars -> IndicatorLevels] :
          merged_indicators = [RSI_14 |-> IndicatorColumn(rsi14),
                               OBV |-> IndicatorColumn(obv),
                               Histogram |-> IndicatorColumn(histogram)]
    /\ merged_divergences = None
    /\ MergeIdle /\ LevelsIdle /\ FibIdle
    /\ DivIdle /\ BreakoutIdle /\ TrendIdle /\ SetupsIdle
    /\ PersistIdle /\ ConfigIdle /\ AuditIdle /\ SnapshotIdle /\ PortfolioIdle

MergeDivergences ==
    /\ pc = "call"
    /\ merged_divergences' = divergence_step(merged_close, merged_indicators)
    /\ pc' = "return"
    /\ UNCHANGED <<merged_close, merged_indicators, mergeVars, levelVars, fibVars, divVars,
                   breakoutVars, trendVars, setupVars, persistVars, configVars, auditVars,
                   snapshotVars, portfolioVars>>

NextMerged == MergeDivergences

SpecMerged == InitMerged /\ [][NextMerged]_vars

\* C25: the divergence list the snapshot stores, which merges the results of
\* the three detectors, is in chronological order: the timestamps of
\* consecutive entries never decrease.
C25_DivergencesChronological ==
    pc = "return" =>
        /\ ~merged_divergences.raised
        /\ \A k \in 1..(Len(merged_divergences.signals) - 1) :
              merged_divergences.signals[k].price_index
                  <= merged_divergences.signals[k + 1].price_index
(***************************************************************************)
(* workflows/portfolio.py: download_portfolio_data, its worker threads and *)
(* the loop that collects their futures                                    *)
(***************************************************************************)
SUPPORTED_PROVIDERS == {"yahoo"}

MaxAssets == 2
MaxWorkers == 2
AssetNames == <<"PETR4", "VALE3", "BOVA11", "IVVB11">>

\* A row of a frame: its Date, whether it comes from the existing file or
\* from the download, and its place there.
FrameRows(dates, origin) ==
    [k \in 1..Len(dates) |-> [Date |-> dates[k], origin |-> origin, at |-> k]]

\* The file {name}_raw.parquet of existing_dir.
NoFile == [exists |-> FALSE, readable |-> FALSE, rows |-> <<>>]
Unreadable == [exists |-> TRUE, readable |-> FALSE, rows |-> <<>>]
FileOf(dates) == [exists |-> TRUE, readable |-> TRUE, rows |-> FrameRows(dates, "existing")]
Files == {NoFile, Unreadable, FileOf(<<NaT, 1, 2>>)}

\* What download_history does for a ticker: it raises ValueError (no data),
\* raises another error, or returns a frame whose dates are not missing.
Responses ==
    {Raise("ValueError"), Raise("ConnectionError"),
     Return(FrameRows(<<>>, "new")),
     Return(FrameRows(<<2, 3>>, "new")),
     Return(FrameRows(<<3, 2, 2>>, "new"))}

\* An Optional[DataFrame] is a sequence of at most one frame; `x is None or
\* x.empty`.
IsNoneOrEmpty(frame) == frame = <<>> \/ frame[1] = <<>>

\* _load_existing(name)
load_existing(existing_dir, name) ==
    IF existing_dir = <<>> THEN <<>>
    ELSE IF ~existing_dir[1][name].exists THEN <<>>
    ELSE IF ~existing_dir[1][name].readable THEN <<>>
    ELSE <<SelectSeq(existing_dir[1][name].rows, LAMBDA row : row.Date # NaT)>>

merge_frames_existing_last(existing, new) ==
    LET combined == IF IsNoneOrEmpty(existing) THEN new
                    ELSE IF IsNoneOrEmpty(new) THEN existing
                    ELSE <<new[1] \o existing[1]>>
    IN IF IsNoneOrEmpty(combined) THEN combined
       ELSE <<sort_values(drop_duplicates(
                  SelectSeq(combined[1], LAMBDA row : row.Date # NaT)))>>

\* _merge_frames(existing, new); every frame has a Date column.
merge_frames(existing, new) ==
    LET combined == IF IsNoneOrEmpty(existing) THEN new
                    ELSE IF IsNoneOrEmpty(new) THEN existing
                    ELSE <<existing[1] \o new[1]>>
    IN IF IsNoneOrEmpty(combined) THEN combined
       ELSE <<sort_values(drop_duplicates(
                  SelectSeq(combined[1], LAMBDA row : row.Date # NaT)))>>

\* _download_asset(asset, start_override=...), given what the provider does.
download_asset(asset, response) ==
    IF asset.provider \notin SUPPORTED_PROVIDERS THEN Raise("UnsupportedProviderError")
    ELSE IF asset.ticker = "" THEN Raise("ValueError")
    ELSE response

\* _task(asset) from the download on.
task(existing_frame, downloaded) ==
    IF Raised(downloaded) /\ downloaded.exc # <<"ValueError">> THEN downloaded
    ELSE LET combined == merge_frames(existing_frame,
                             IF Raised(downloaded) THEN <<>> ELSE <<downloaded.value>>)
         IN IF IsNoneOrEmpty(combined) THEN Raise("ValueError")
            ELSE Return(combined[1])

\* The entry the collecting loop appends to skipped: asset.name, or
\* f"{asset.name} (erro: {exc})".
skipped_entry(name, exc) ==
    IF exc = <<"UnsupportedProviderError">> THEN <<name>> ELSE <<name, "erro", exc[1]>>

Assets == 1..Len(portfolio.assets)

Running == {i \in Assets : futures[i].state = "running"}

besidesPortfolio == <<mergeVars, levelVars, fibVars, divVars, breakoutVars, trendVars,
                      setupVars, persistVars, configVars, auditVars, snapshotVars,
                      mergedVars>>

InitPortfolio ==
    /\ pc = "call"
    /\ \E n \in 1..Min(MaxAssets, Len(AssetNames)) :
          \E providers \in [1..n -> {"yahoo", "b3"}], tickers \in [1..n -> {"", "T"}],
             files \in [{AssetNames[k] : k \in 1..n} -> Files],
             has_dir \in BOOLEAN, max_workers \in {0, MaxWorkers} :
              /\ ~has_dir => \A k \in 1..n : files[AssetNames[k]] = NoFile
              /\ \A k \in 1..n : providers[k] = "b3" => tickers[k] = "T"
              /\ portfolio = [assets |-> [k \in 1..n |->
                                             [name |-> AssetNames[k],
                                              provider |-> providers[k],
                                              ticker |-> tickers[k]]],
                              existing_dir |-> IF has_dir THEN <<files>> ELSE <<>>,
                              max_workers |-> max_workers]
              /\ futures = [k \in 1..n |->
                               [state |-> "unsubmitted", existing_frame |-> <<>>,
                                downloaded |-> <<>>, result |-> <<>>]]
    /\ data_map = <<>>
    /\ skipped = <<>>
    /\ MergeIdle /\ LevelsIdle /\ FibIdle
    /\ DivIdle /\ BreakoutIdle /\ TrendIdle /\ SetupsIdle
    /\ PersistIdle /\ ConfigIdle /\ AuditIdle /\ SnapshotIdle /\ MergedIdle

\* executor.submit(_task, asset), in the order of config.assets.
Submit(i) ==
    /\ pc = "call"
    /\ futures[i].state = "unsubmitted"
    /\ \A j \in 1..(i - 1) : futures[j].state # "unsubmitted"
    /\ futures' = [futures EXCEPT ![i].state = "pending"]
    /\ UNCHANGED <<pc, portfolio, data_map, skipped, besidesPortfolio>>

\* A free worker thread takes the task and reads the existing file.
StartTask(i) ==
    /\ pc = "call"
    /\ futures[i].state = "pending"
    /\ Cardinality(Running) < Max(portfolio.max_workers, 1)
    /\ futures' = [futures EXCEPT
                      ![i].state = "running",
                      ![i].existing_frame =
                          load_existing(portfolio.existing_dir, portfolio.assets[i].name)]
    /\ UNCHANGED <<pc, portfolio, data_map, skipped, besidesPortfolio>>

\* The thread downloads, merges and completes the future.
FinishTask(i) ==
    /\ pc = "call"
    /\ futures[i].state = "running"
    /\ \E response \in Responses :
          LET downloaded == download_asset(portfolio.assets[i], response)
          IN futures' = [futures EXCEPT
                            ![i].state = "finished",
                            ![i].downloaded = <<downloaded>>,
                            ![i].result = <<task(futures[i].existing_frame, downloaded)>>]
    /\ UNCHANGED <<pc, portfolio, data_map, skipped, besidesPortfolio>>

\* One round of `for future in as_completed(future_map)`.
Collect(i) ==
    /\ pc = "call"
    /\ \A j \in Assets : futures[j].state # "unsubmitted"
    /\ futures[i].state = "finished"
    /\ IF Raised(futures[i].result[1])
          THEN /\ skipped' = Append(skipped, skipped_entry(portfolio.assets[i].name,
                                                           futures[i].result[1].exc))
               /\ UNCHANGED data_map
          ELSE /\ data_map' = [name \in DOMAIN data_map \cup {portfolio.assets[i].name} |->
                                  IF name = portfolio.assets[i].name
                                     THEN futures[i].result[1].value
                                     ELSE data_map[name]]
               /\ UNCHANGED skipped
    /\ futures' = [futures EXCEPT ![i].state = "collected"]
    /\ UNCHANGED <<pc, portfolio, besidesPortfolio>>

\* return data_map, skipped
ReturnMaps ==
    /\ pc = "call"
    /\ \A j \in Assets : futures[j].state = "collected"
    /\ pc' = "return"
    /\ UNCHANGED <<portfolio, futures, data_map, skipped, besidesPortfolio>>

NextPortfolio ==
    \/ \E i \in Assets : Submit(i)
    \/ \E i \in Assets : StartTask(i)
    \/ \E i \in Assets : FinishTask(i)
    \/ \E i \in Assets : Collect(i)
    \/ ReturnMaps

SpecPortfolio == InitPortfolio /\ [][NextPortfolio]_vars

\* The entries of skipped made for the asset of the name.
EntriesNaming(name) == {k \in 1..Len(skipped) : skipped[k][1] = name}

\* The dates of the frame are unique and ascending.
DatesAscending(frame) ==
    \A k \in 1..(Len(frame) - 1) : frame[k].Date < frame[k + 1].Date

\* At a date the download of future i has a row for, the frame has a
\* downloaded row.
NewRowWins(frame, i) ==
    ~Raised(futures[i].downloaded[1]) =>
        \A k \in 1..Len(frame) : \A j \in 1..Len(futures[i].downloaded[1].value) :
            futures[i].downloaded[1].value[j].Date = frame[k].Date =>
                frame[k].origin = "new"

\* C30: whatever the order in which the worker threads run and complete, no
\* asset is ever both a key of data_map and an entry of skipped; when the
\* call returns every asset is in exactly one of the two, every asset whose
\* task produced a frame has that frame in data_map whatever happened to
\* the other tasks, and every collected frame has unique ascending dates
\* with the downloaded row at each date the download has.
C30_EachAssetInExactlyOneOutput ==
    /\ \A i \in Assets :
          ~(/\ portfolio.assets[i].name \in DOMAIN data_map
            /\ EntriesNaming(portfolio.assets[i].name) # {})
    /\ pc = "return" =>
          \A i \in Assets :
              LET name == portfolio.assets[i].name
              IN /\ (name \in DOMAIN data_map) # (EntriesNaming(name) # {})
                 /\ Cardinality(EntriesNaming(name)) <= 1
                 /\ ~Raised(futures[i].result[1]) =>
                       /\ name \in DOMAIN data_map
                       /\ data_map[name] = futures[i].result[1].value
                 /\ name \in DOMAIN data_map =>
                       /\ DatesAscending(data_map[name])
                       /\ NewRowWins(data_map[name], i)

\* The call returned with one asset skipped and, collected after it, the
\* frame of another asset in which a downloaded row replaced the existing
\* row of the same date.
C30_Witness ==
    /\ pc = "return"
    /\ \E i, j \in Assets :
          /\ EntriesNaming(portfolio.assets[i].name) # {}
          /\ portfolio.assets[j].name \in DOMAIN data_map
          /\ futures[j].existing_frame # <<>>
          /\ ~Raised(futures[j].downloaded[1])
          /\ \E a \in 1..Len(futures[j].existing_frame[1]) :
                \E b \in 1..Len(futures[j].downloaded[1].value) :
                    futures[j].existing_frame[1][a].Date
                        = futures[j].downloaded[1].value[b].Date
====
